---- MODULE Spec2Model ----
(***************************************************************************)
(* A model of the Merkle Patricia Trie of package trie (trie.go,           *)
(* hasher.go, the key encodings) and of the RLP header encoding it uses.   *)
(*                                                                         *)
(* Nodes are records tagged by t: "nil", "value", "hash", "short", "full". *)
(* Keccak-256 is modelled as an ideal (collision-free) hash: the digest of *)
(* a byte string is a record holding that byte string.  Inside an encoding *)
(* the 32 bytes of a digest are written as 32 HashByte markers and the     *)
(* digest itself is appended to the encoding's refs, so that the length of *)
(* an encoding is its real length and two encodings are equal iff the      *)
(* byte strings they stand for are equal.                                  *)
(***************************************************************************)
EXTENDS Integers, Sequences, FiniteSets, TLC

VARIABLES root, unhashed, db, model, last, nops, mem, pc

vars == <<root, unhashed, db, model, last, nops, mem, pc>>

(***************************************************************************)
(* Bounds of the model.                                                    *)
(***************************************************************************)
\* number of operations of one run
MaxOps == 4

\* the keys (KEYBYTES encoding) the operations are called with: the empty
\* key, two keys that share their first nibble, a key that extends another
\* one ("do" / "dog"), and a key that differs in the first nibble
Keys == {<< >>, <<17>>, <<18>>, <<17, 17>>, <<33>>}

\* a value whose leaf is embedded (encoding < 32 bytes), and one whose leaf
\* is referenced by hash (encoding >= 32 bytes)
SmallVal == <<1>>
LargeVal == [i \in 1..32 |-> 170]
Values == {SmallVal, LargeVal}

(***************************************************************************)
(* Small helpers.                                                          *)
(***************************************************************************)
Min(a, b) == IF a < b THEN a ELSE b

\* s[from+1 .. to] in Go's s[from:to]
Slice(s, from, to) == SubSeq(s, from + 1, to)

\* the marker standing for one byte of a Keccak-256 digest inside an encoding
HashByte == 256

(***************************************************************************)
(* Key encodings.                                                          *)
(***************************************************************************)
\* hasTerm returns whether a hex key has the terminator flag
hasTerm(s) == Len(s) > 0 /\ s[Len(s)] = 16

\* keybytesToHex without the terminator
keybytesToHexNoTerm(str) ==
  [i \in 1..(2 * Len(str)) |->
     IF i % 2 = 1 THEN str[(i + 1) \div 2] \div 16 ELSE str[i \div 2] % 16]

\* keybytesToHex: two nibbles per byte, then the terminator 16
keybytesToHex(str) ==
  [i \in 1..(2 * Len(str) + 1) |->
     IF i = 2 * Len(str) + 1 THEN 16
     ELSE IF i % 2 = 1 THEN str[(i + 1) \div 2] \div 16
     ELSE str[i \div 2] % 16]

\* decodeNibbles packs two nibbles into each byte
decodeNibbles(nibbles) ==
  [bi \in 1..(Len(nibbles) \div 2) |->
     (nibbles[2 * bi - 1] * 16 + nibbles[2 * bi]) % 256]

\* hexToCompact: flag byte (leaf bit 5, odd bit 4, first nibble if odd), then
\* the remaining nibbles two per byte
hexToCompact(hex) ==
  LET terminator == IF hasTerm(hex) THEN 1 ELSE 0
      h1 == IF hasTerm(hex) THEN Slice(hex, 0, Len(hex) - 1) ELSE hex
      odd == Len(h1) % 2 = 1
      b0 == terminator * 32 + (IF odd THEN 16 + h1[1] ELSE 0)
      h2 == IF odd THEN Slice(h1, 1, Len(h1)) ELSE h1
  IN <<b0>> \o decodeNibbles(h2)

\* a | b on bytes
RECURSIVE bitOr(_, _)
bitOr(a, b) ==
  IF a = 0 THEN b
  ELSE IF b = 0 THEN a
  ELSE (IF a % 2 = 1 \/ b % 2 = 1 THEN 1 ELSE 0) + 2 * bitOr(a \div 2, b \div 2)

\* the loop of hexToCompactInPlace without the shift of the high nibble
RECURSIVE packInPlaceNoShift(_, _, _, _)
packInPlaceNoShift(hex, hexLen, ni, bi) ==
  IF ni < hexLen
  THEN packInPlaceNoShift([hex EXCEPT ![bi + 1] = bitOr(hex[ni + 1], hex[ni + 2])],
                          hexLen, ni + 2, bi + 1)
  ELSE hex

\* the loop of hexToCompactInPlace:
\* for ; ni < hexLen; bi, ni = bi+1, ni+2 { hex[bi] = hex[ni]<<4 | hex[ni+1] }
RECURSIVE packInPlace(_, _, _, _)
packInPlace(hex, hexLen, ni, bi) ==
  IF ni < hexLen
  THEN packInPlace([hex EXCEPT ![bi + 1] =
                      bitOr((hex[ni + 1] * 16) % 256, hex[ni + 2])],
                   hexLen, ni + 2, bi + 1)
  ELSE hex

\* hexToCompactInPlace places the compact key in the input buffer and
\* returns the length needed for the representation; hex[0] = firstByte
\* panics (index out of range) on an empty buffer
hexToCompactInPlace(hex) ==
  LET term == Len(hex) > 0 /\ hex[Len(hex)] = 16
      hexLen == IF term THEN Len(hex) - 1 ELSE Len(hex)
      odd == hexLen % 2 = 1
      firstByte == bitOr(IF term THEN 32 ELSE 0,
                         IF odd THEN bitOr(16, hex[1]) ELSE 0)
  IN IF Len(hex) = 0 THEN [panic |-> TRUE]
     ELSE [panic |-> FALSE,
           hex |-> [packInPlace(hex, hexLen, IF odd THEN 1 ELSE 0, 1)
                      EXCEPT ![1] = firstByte],
           sz |-> hexLen \div 2 + 1]

\* compactToHex that never drops the terminator keybytesToHex appends
compactToHexKeepTerm(compact) ==
  IF Len(compact) = 0 THEN compact
  ELSE LET base == keybytesToHex(compact)
           chop == 2 - (base[1] % 2)
       IN Slice(base, chop, Len(base))

\* compactToHex: the inverse of hexToCompact
compactToHex(compact) ==
  IF Len(compact) = 0 THEN compact
  ELSE LET base0 == keybytesToHex(compact)
           base == IF base0[1] < 2 THEN Slice(base0, 0, Len(base0) - 1) ELSE base0
           chop == 2 - (base[1] % 2)
       IN Slice(base, chop, Len(base))

RECURSIVE prefixLenFrom(_, _, _)
prefixLenFrom(a, b, i) ==
  IF i < Min(Len(a), Len(b)) /\ a[i + 1] = b[i + 1]
  THEN prefixLenFrom(a, b, i + 1)
  ELSE i

\* prefixLen with the comparison of the elements left out
prefixLenNoCompare(a, b) == Min(Len(a), Len(b))

\* prefixLen returns the length of the common prefix of a and b
prefixLen(a, b) == prefixLenFrom(a, b, 0)

\* concat with the two parts in the wrong order
concatSwapped(s1, s2) == s2 \o s1

\* concat always creates a new slice
concat(s1, s2) == s1 \o s2

(***************************************************************************)
(* RLP headers and strings.                                                *)
(***************************************************************************)
\* uint64(i): the 64-bit unsigned integer i as its eight bytes, the most
\* significant first (the conversion uint64(len(...)) of the callers)
uint64(i) ==
  <<0, 0, 0, 0, (i \div 16777216) % 256, (i \div 65536) % 256, (i \div 256) % 256,
    i % 256>>

\* i >> 8
shr8(i) == <<0>> \o SubSeq(i, 1, 7)

\* i == 0
isZero(i) == \A j \in 1..8 : i[j] = 0

\* i < (1 << (8 * n))
below(i, n) == \A j \in 1..(8 - n) : i[j] = 0

\* byte(i >> (8 * k)): the conversion keeps the low eight bits
byte(i, k) == i[8 - k]

\* intsize: the minimum number of bytes needed to store i
RECURSIVE intsize(_)
intsize(i) == IF isZero(shr8(i)) THEN 1 ELSE 1 + intsize(shr8(i))

\* putint without the cases of five bytes and more
putintFourBytes(i) ==
  CASE below(i, 1) -> <<byte(i, 0)>>
    [] below(i, 2) -> <<byte(i, 1), byte(i, 0)>>
    [] below(i, 3) -> <<byte(i, 2), byte(i, 1), byte(i, 0)>>
    [] OTHER       -> <<byte(i, 3), byte(i, 2), byte(i, 1), byte(i, 0)>>

\* putint: i in big endian byte order with the least number of bytes
putint(i) ==
  CASE below(i, 1) -> <<byte(i, 0)>>
    [] below(i, 2) -> <<byte(i, 1), byte(i, 0)>>
    [] below(i, 3) -> <<byte(i, 2), byte(i, 1), byte(i, 0)>>
    [] below(i, 4) -> <<byte(i, 3), byte(i, 2), byte(i, 1), byte(i, 0)>>
    [] below(i, 5) -> <<byte(i, 4), byte(i, 3), byte(i, 2), byte(i, 1), byte(i, 0)>>
    [] below(i, 6) -> <<byte(i, 5), byte(i, 4), byte(i, 3), byte(i, 2), byte(i, 1),
                        byte(i, 0)>>
    [] below(i, 7) -> <<byte(i, 6), byte(i, 5), byte(i, 4), byte(i, 3), byte(i, 2),
                        byte(i, 1), byte(i, 0)>>
    [] OTHER       -> <<byte(i, 7), byte(i, 6), byte(i, 5), byte(i, 4), byte(i, 3),
                        byte(i, 2), byte(i, 1), byte(i, 0)>>

\* size < 56
small(size) == below(size, 1) /\ byte(size, 0) < 56

\* buf[0] = largetag + byte(sizesize), after the sizesize bytes of putint
largeHead(largetag, sizebytes) == <<(largetag + Len(sizebytes)) % 256>> \o sizebytes

\* puthead: the header of a string or list of the given payload size, as the
\* bytes written to buf
puthead(smalltag, largetag, size) ==
  IF small(size) THEN <<(smalltag + byte(size, 0)) % 256>>
  ELSE largeHead(largetag, putint(size))

\* headsize: the number of bytes of that header
headsize(size) == IF small(size) THEN 1 ELSE 1 + intsize(size)

\* encBuffer.encodeStringHeader: the header of a string of the given length
encodeStringHeader(size) == puthead(128, 183, uint64(size))

\* writeLengthZeroByteArray: the empty byte array
writeLengthZeroByteArray == <<128>>

\* writeLengthOneByteArray: the byte array of the one byte b
writeLengthOneByteArray(b) == IF b <= 127 THEN <<b>> ELSE <<129, b>>

\* writeString that gives every string a header
writeStringAlwaysHeader(s) == encodeStringHeader(Len(s)) \o s

\* writeString / writeBytes: a single byte <= 0x7f is its own encoding,
\* every other string is a header followed by the bytes
writeString(s) ==
  IF Len(s) = 1 /\ s[1] <= 127 THEN <<s[1]>>
  ELSE encodeStringHeader(Len(s)) \o s

\* makeByteArrayWriter: the encoding of the byte array a, by its length
makeByteArrayWriter(a) ==
  CASE Len(a) = 0 -> writeLengthZeroByteArray
    [] Len(a) = 1 -> writeLengthOneByteArray(a[1])
    [] OTHER      -> encodeStringHeader(Len(a)) \o a

\* encBuffer.list / listEnd: the list of the given payload
listEnd(payload) == puthead(192, 247, uint64(Len(payload))) \o payload

\* reflect.Value.IsZero of a field of type string
IsZero(v) == v = << >>

\* firstOptionalField: the index of the first field with the "optional" tag,
\* from index i on; indices count from 0
RECURSIVE firstOptionalFrom(_, _)
firstOptionalFrom(fields, i) ==
  IF i >= Len(fields) THEN Len(fields)
  ELSE IF fields[i + 1].optional THEN i
  ELSE firstOptionalFrom(fields, i + 1)

firstOptionalField(fields) == firstOptionalFrom(fields, 0)

\* the loop of the struct writer that finds the last field to write
RECURSIVE lastFieldFrom(_, _, _)
lastFieldFrom(val, first, lastField) ==
  IF lastField >= first /\ IsZero(val[lastField + 1])
  THEN lastFieldFrom(val, first, lastField - 1)
  ELSE lastField

\* the fields i .. lastField written by their writers, one after the other
RECURSIVE writeFields(_, _, _)
writeFields(val, i, lastField) ==
  IF i > lastField THEN << >>
  ELSE writeString(val[i + 1]) \o writeFields(val, i + 1, lastField)

\* a struct writer that writes every field
makeStructWriterAllFields(fields, val) ==
  listEnd(writeFields(val, 0, Len(fields) - 1))

\* makeStructWriter: the encoding of the struct value val of a type with the
\* given fields
makeStructWriter(fields, val) ==
  IF firstOptionalField(fields) = Len(fields)
  THEN listEnd(writeFields(val, 0, Len(fields) - 1))
  ELSE listEnd(writeFields(val, 0,
         lastFieldFrom(val, firstOptionalField(fields), Len(fields) - 1)))

(***************************************************************************)
(* The node algebra.                                                       *)
(***************************************************************************)
nilNode == [t |-> "nil"]

valueNode(v) == [t |-> "value", v |-> v]

hashNode(h) == [t |-> "hash", h |-> h]

shortNode(key, val, flags) ==
  [t |-> "short", Key |-> key, Val |-> val, flags |-> flags]

\* nilValueNode stands for a nil child in a collapsed full node
nilValueNode == valueNode(<< >>)

\* the zero value of nodeFlag
noFlag == [hash |-> nilNode, dirty |-> FALSE]

\* newFlag returns the cache flag value for a newly created node
newFlag == [hash |-> nilNode, dirty |-> TRUE]

\* a full node without children: &fullNode{flags: flags}
emptyFullNode(flags) ==
  [t |-> "full", Children |-> [i \in 1..17 |-> nilNode], flags |-> flags]

\* n.Children[i] with Go's index i in 0..16
Child(n, i) == n.Children[i + 1]

SetChild(n, i, c) == [n EXCEPT !.Children[i + 1] = c]

\* node.cache(): the cached hash and the dirty flag of a short or full node;
\* (nil, true) for hash and value nodes
cache(n) ==
  IF n.t \in {"short", "full"} THEN n.flags
  ELSE [hash |-> nilNode, dirty |-> TRUE]

(***************************************************************************)
(* Node encoding and hashing.                                              *)
(***************************************************************************)
\* the ideal hash: a digest determines its preimage
Keccak256(data) == [pre |-> data]

encBytes(bs) == [bytes |-> bs, refs |-> << >>]

\* emptyRoot is the known root hash of an empty trie, Keccak256(0x80)
emptyRoot == Keccak256(encBytes(<<128>>))

\* a list header in front of the concatenated items
encList(payload) ==
  [bytes |-> puthead(192, 247, uint64(Len(payload.bytes))) \o payload.bytes,
   refs |-> payload.refs]

encCat(a, b) == [bytes |-> a.bytes \o b.bytes, refs |-> a.refs \o b.refs]

\* node.encode for a collapsed node (its keys compact, its big children
\* replaced by their hashes)
RECURSIVE encode(_)
RECURSIVE encodeChildren(_, _)
encodeChildren(n, i) ==
  IF i > 16 THEN encBytes(<< >>)
  ELSE encCat(encode(Child(n, i)), encodeChildren(n, i + 1))

encode(n) ==
  CASE n.t = "nil"   -> encBytes(<<128>>)
    [] n.t = "value" -> encBytes(writeString(n.v))
    [] n.t = "hash"  -> [bytes |-> <<160>> \o [i \in 1..32 |-> HashByte],
                         refs |-> <<n.h>>]
    [] n.t = "short" -> encList(encCat(encBytes(writeString(n.Key)), encode(n.Val)))
    [] n.t = "full"  -> encList(encodeChildren(n, 0))

\* what stands for the result of a call that panicked instead of returning
noHash == Keccak256(encBytes(<< >>))

\* hashData hashes the provided data
hashData(data) == hashNode(Keccak256(data))

\* shortnodeToHash that hashes whatever the size of the encoding
shortnodeToHashAlways(n, force) == hashData(encode(n))

\* shortnodeToHash that ignores force
shortnodeToHashUnforced(n, force) ==
  IF Len(encode(n).bytes) < 32 THEN n ELSE hashData(encode(n))

\* shortnodeToHash: the node itself when its encoding is smaller than 32
\* bytes and the hash is not forced
shortnodeToHash(n, force) ==
  LET enc == encode(n)
  IN IF Len(enc.bytes) < 32 /\ ~force THEN n ELSE hashData(enc)

fullnodeToHash(n, force) ==
  LET enc == encode(n)
  IN IF Len(enc.bytes) < 32 /\ ~force THEN n ELSE hashData(enc)

\* the results of hash: the hash is stored in the cached node when the node
\* was hashed, and cleared when the node is embedded
withHash(hashed, cached) ==
  [hashed |-> hashed,
   cached |-> [cached EXCEPT !.flags.hash =
                 IF hashed.t = "hash" THEN hashed ELSE nilNode]]

RECURSIVE hash(_, _, _)
RECURSIVE hashFullNodeChildren(_, _, _, _)

\* the collapsed copy of a short node has the compact key and the hashed
\* child (sub.hashed), the cached copy the hex key and the cached child
shortCopies(n, sub) ==
  [collapsed |-> [n EXCEPT !.Key = hexToCompact(n.Key), !.Val = sub.hashed],
   cached |-> [n EXCEPT !.Val = sub.cached]]

\* hashShortNodeChildren: the child is hashed unless it is a value node or a
\* hash node
hashShortNodeChildren(parallel, n) ==
  IF n.Val.t \in {"full", "short"}
  THEN shortCopies(n, hash(parallel, n.Val, FALSE))
  ELSE shortCopies(n, [hashed |-> n.Val, cached |-> n.Val])

\* child i of a full node after hashing it: sub is the result of hash
fullCopies(parallel, collapsed, cached, i, sub) ==
  hashFullNodeChildren(parallel, SetChild(collapsed, i, sub.hashed),
                       SetChild(cached, i, sub.cached), i + 1)

\* hashFullNodeChildren, children i..15; with h.parallel each child is
\* hashed by a hasher of its own, obtained with newHasher(false)
hashFullNodeChildren(parallel, collapsed, cached, i) ==
  IF i > 15 THEN [collapsed |-> collapsed, cached |-> cached]
  ELSE IF Child(cached, i) # nilNode
       THEN fullCopies(parallel, collapsed, cached, i,
                       hash(IF parallel THEN FALSE ELSE parallel,
                            Child(cached, i), FALSE))
       ELSE hashFullNodeChildren(parallel,
              SetChild(collapsed, i, nilValueNode), cached, i + 1)

hashShort(c, force) == withHash(shortnodeToHash(c.collapsed, force), c.cached)

hashFull(c, force) == withHash(fullnodeToHash(c.collapsed, force), c.cached)

\* hash collapses a node down into a hash node, also returning a copy of
\* the original node initialized with the computed hash
hash(parallel, n, force) ==
  IF cache(n).hash # nilNode THEN [hashed |-> cache(n).hash, cached |-> n]
  ELSE CASE n.t = "short" -> hashShort(hashShortNodeChildren(parallel, n), force)
         [] n.t = "full" -> hashFull(hashFullNodeChildren(parallel, n, n, 0), force)
         [] OTHER -> [hashed |-> n, cached |-> n]

(***************************************************************************)
(* The node store.  db maps the hash of a committed node to the node in    *)
(* its stored form: keys compact, children by hash or embedded, no flags.  *)
(***************************************************************************)
\* the trie's owner (NewEmpty passes the zero hash)
owner == "owner"

noErr == [kind |-> "nil"]

MissingNodeError(o, h, path) ==
  [kind |-> "missing", Owner |-> o, NodeHash |-> h, Path |-> path]

\* a Go panic ("invalid node", index out of range) ends the operation
panicErr == [kind |-> "panic"]

\* the stored form of a collapsed node: its flags are dropped
RECURSIVE simplifyNode(_)
simplifyNode(n) ==
  CASE n.t = "short" -> [t |-> "short", Key |-> n.Key, Val |-> simplifyNode(n.Val)]
    [] n.t = "full"  -> [t |-> "full",
                         Children |-> [i \in 1..17 |-> simplifyNode(n.Children[i])]]
    [] OTHER -> n

\* the in-memory form of a stored node: keys in hex, the hash it was loaded
\* under in its flags, embedded children without a hash, nothing dirty
RECURSIVE expandNode(_, _)
expandNode(h, n) ==
  CASE n.t = "short" ->
         shortNode(compactToHex(n.Key), expandNode(nilNode, n.Val),
                   [hash |-> h, dirty |-> FALSE])
    [] n.t = "full" ->
         [t |-> "full",
          Children |-> [i \in 1..17 |-> expandNode(nilNode, n.Children[i])],
          flags |-> [hash |-> h, dirty |-> FALSE]]
    [] OTHER -> n

\* db.node(hash): the node stored under hash, nil when there is none
dbNode(d, h) == IF h \in DOMAIN d THEN expandNode(hashNode(h), d[h]) ELSE nilNode

\* resolveHash loads the node a hash node stands for
resolveHash(d, n, prefix) ==
  LET nd == dbNode(d, n.h)
  IN IF nd # nilNode THEN [n |-> nd, err |-> noErr]
     ELSE [n |-> nilNode, err |-> MissingNodeError(owner, n.h, prefix)]

\* resolve that leaves a hash node unresolved
resolveNothing(d, n, prefix) == [n |-> n, err |-> noErr]

resolve(d, n, prefix) ==
  IF n.t = "hash" THEN resolveHash(d, n, prefix) ELSE [n |-> n, err |-> noErr]

(***************************************************************************)
(* Get.                                                                    *)
(***************************************************************************)
\* tryGet: the value (<< >> for nil), the node to put in place of origNode,
\* whether a hash node was resolved on the way, and the error
RECURSIVE tryGet(_, _, _, _)
tryGet(d, origNode, key, pos) ==
  LET n == origNode IN
  CASE n.t = "nil" ->
         [value |-> << >>, newnode |-> nilNode, didResolve |-> FALSE, err |-> noErr]
    [] n.t = "value" ->
         [value |-> n.v, newnode |-> n, didResolve |-> FALSE, err |-> noErr]
    [] n.t = "short" ->
         IF Len(key) - pos < Len(n.Key)
            \/ n.Key # Slice(key, pos, pos + Len(n.Key))
         THEN [value |-> << >>, newnode |-> n, didResolve |-> FALSE, err |-> noErr]
         ELSE LET r == tryGet(d, n.Val, key, pos + Len(n.Key))
              IN [value |-> r.value,
                  newnode |-> IF r.err = noErr /\ r.didResolve
                              THEN [n EXCEPT !.Val = r.newnode] ELSE n,
                  didResolve |-> r.didResolve, err |-> r.err]
    [] n.t = "full" ->
         IF pos >= Len(key)
         THEN [value |-> << >>, newnode |-> n, didResolve |-> FALSE, err |-> panicErr]
         ELSE LET r == tryGet(d, Child(n, key[pos + 1]), key, pos + 1)
              IN [value |-> r.value,
                  newnode |-> IF r.err = noErr /\ r.didResolve
                              THEN SetChild(n, key[pos + 1], r.newnode) ELSE n,
                  didResolve |-> r.didResolve, err |-> r.err]
    [] n.t = "hash" ->
         LET c == resolveHash(d, n, Slice(key, 0, pos))
         IN IF c.err # noErr
            THEN [value |-> << >>, newnode |-> n, didResolve |-> TRUE, err |-> c.err]
            ELSE LET r == tryGet(d, c.n, key, pos)
                 IN [value |-> r.value, newnode |-> r.newnode,
                     didResolve |-> TRUE, err |-> r.err]

(***************************************************************************)
(* Insert.                                                                 *)
(***************************************************************************)
\* replaceChild without n.flags = t.newFlag(): the copy keeps the cached hash
replaceChildKeepFlags(n, i, nn) == SetChild(n, i, nn)

\* n = n.copy(); n.flags = t.newFlag(); n.Children[i] = nn
replaceChild(n, i, nn) == SetChild([n EXCEPT !.flags = newFlag], i, nn)

\* notFound that reports a change
notFoundDirty(n) == [dirty |-> TRUE, n |-> n, err |-> noErr]

\* the result of a delete that found nothing to delete below n: n is not
\* replaced
notFound(n) == [dirty |-> FALSE, n |-> n, err |-> noErr]

\* insert puts value (a node) under key below n; it returns whether the
\* trie changed, the node to put in place of n, and the error
RECURSIVE insert(_, _, _, _, _)
insert(d, n, prefix, key, value) ==
  IF Len(key) = 0
  THEN IF n.t = "value"
       THEN [dirty |-> n.v # value.v, n |-> value, err |-> noErr]
       ELSE [dirty |-> TRUE, n |-> value, err |-> noErr]
  ELSE
  CASE n.t = "short" ->
         LET matchlen == prefixLen(key, n.Key) IN
         IF matchlen = Len(n.Key)
         THEN \* the whole key matches: keep this short node, update the value
              LET r == insert(d, n.Val, prefix \o Slice(key, 0, matchlen),
                              Slice(key, matchlen, Len(key)), value)
              IN IF ~r.dirty \/ r.err # noErr
                 THEN [dirty |-> FALSE, n |-> n, err |-> r.err]
                 ELSE [dirty |-> TRUE, n |-> shortNode(n.Key, r.n, newFlag),
                       err |-> noErr]
         ELSE IF matchlen >= Len(key)
         THEN [dirty |-> FALSE, n |-> nilNode, err |-> panicErr]
         ELSE \* branch out at the index where the keys differ
              LET b1 == insert(d, nilNode,
                               prefix \o Slice(n.Key, 0, matchlen + 1),
                               Slice(n.Key, matchlen + 1, Len(n.Key)), n.Val)
                  b2 == insert(d, nilNode,
                               prefix \o Slice(key, 0, matchlen + 1),
                               Slice(key, matchlen + 1, Len(key)), value)
                  branch == SetChild(SetChild(emptyFullNode(newFlag),
                                              n.Key[matchlen + 1], b1.n),
                                     key[matchlen + 1], b2.n)
              IN IF b1.err # noErr
                 THEN [dirty |-> FALSE, n |-> nilNode, err |-> b1.err]
                 ELSE IF b2.err # noErr
                 THEN [dirty |-> FALSE, n |-> nilNode, err |-> b2.err]
                 ELSE IF matchlen = 0
                 THEN [dirty |-> TRUE, n |-> branch, err |-> noErr]
                 ELSE [dirty |-> TRUE,
                       n |-> shortNode(Slice(key, 0, matchlen), branch, newFlag),
                       err |-> noErr]
    [] n.t = "full" ->
         LET r == insert(d, Child(n, key[1]), prefix \o <<key[1]>>,
                         Slice(key, 1, Len(key)), value)
         IN IF ~r.dirty \/ r.err # noErr
            THEN [dirty |-> FALSE, n |-> n, err |-> r.err]
            ELSE [dirty |-> TRUE,
                  n |-> replaceChild(n, key[1], r.n),
                  err |-> noErr]
    [] n.t = "nil" ->
         [dirty |-> TRUE, n |-> shortNode(key, value, newFlag), err |-> noErr]
    [] n.t = "hash" ->
         \* a part of the trie that is not loaded yet: load it, insert into it
         LET rn == resolveHash(d, n, prefix) IN
         IF rn.err # noErr
         THEN [dirty |-> FALSE, n |-> nilNode, err |-> rn.err]
         ELSE LET r == insert(d, rn.n, prefix, key, value)
              IN IF ~r.dirty \/ r.err # noErr
                 THEN [dirty |-> FALSE, n |-> rn.n, err |-> r.err]
                 ELSE [dirty |-> TRUE, n |-> r.n, err |-> noErr]
    [] OTHER -> [dirty |-> FALSE, n |-> nilNode, err |-> panicErr]

(***************************************************************************)
(* Delete.                                                                 *)
(***************************************************************************)
\* onlyChild that never finds a single child
onlyChildNever(n, i, pos) == -2

\* the loop of delete over a full node's children: the index of the single
\* non-nil entry, -2 when there are at least two, -1 when there is none
RECURSIVE onlyChild(_, _, _)
onlyChild(n, i, pos) ==
  IF i > 16 THEN pos
  ELSE IF Child(n, i) # nilNode
       THEN IF pos = -1 THEN onlyChild(n, i + 1, i) ELSE -2
       ELSE onlyChild(n, i + 1, pos)

\* delete removes key below n and reduces the trie to its minimal form on
\* the way up; it returns whether the trie changed, the node to put in
\* place of n, and the error
RECURSIVE delete(_, _, _, _)
delete(d, n, prefix, key) ==
  CASE n.t = "short" ->
         LET matchlen == prefixLen(key, n.Key) IN
         IF matchlen < Len(n.Key)
         THEN notFound(n)
         ELSE IF matchlen = Len(key)
         THEN [dirty |-> TRUE, n |-> nilNode, err |-> noErr]
         ELSE \* the key is longer than n.Key: remove the rest from the subtrie
              LET r == delete(d, n.Val, prefix \o Slice(key, 0, Len(n.Key)),
                              Slice(key, Len(n.Key), Len(key)))
              IN IF ~r.dirty \/ r.err # noErr
                 THEN [dirty |-> FALSE, n |-> n, err |-> r.err]
                 ELSE IF r.n.t = "short"
                 THEN \* merge the two short nodes
                      [dirty |-> TRUE,
                       n |-> shortNode(concat(n.Key, r.n.Key), r.n.Val, newFlag),
                       err |-> noErr]
                 ELSE [dirty |-> TRUE, n |-> shortNode(n.Key, r.n, newFlag),
                       err |-> noErr]
    [] n.t = "full" ->
         IF Len(key) = 0
         THEN [dirty |-> FALSE, n |-> nilNode, err |-> panicErr]
         ELSE
         LET r == delete(d, Child(n, key[1]), prefix \o <<key[1]>>,
                         Slice(key, 1, Len(key)))
             nn == replaceChild(n, key[1], r.n)
             pos == onlyChild(nn, 0, -1)
         IN IF ~r.dirty \/ r.err # noErr
            THEN [dirty |-> FALSE, n |-> n, err |-> r.err]
            ELSE IF r.n # nilNode
            THEN [dirty |-> TRUE, n |-> nn, err |-> noErr]
            ELSE IF pos >= 0
            THEN LET cnode == IF pos # 16 THEN resolve(d, Child(nn, pos), prefix)
                              ELSE [n |-> nilNode, err |-> noErr]
                 IN IF cnode.err # noErr
                    THEN [dirty |-> FALSE, n |-> nilNode, err |-> cnode.err]
                    ELSE IF pos # 16 /\ cnode.n.t = "short"
                    THEN \* the remaining short node replaces n, its key gets
                         \* the missing nibble tacked to the front
                         [dirty |-> TRUE,
                          n |-> shortNode(<<pos>> \o cnode.n.Key, cnode.n.Val, newFlag),
                          err |-> noErr]
                    ELSE \* n is replaced by a one-nibble short node
                         [dirty |-> TRUE,
                          n |-> shortNode(<<pos>>, Child(nn, pos), newFlag),
                          err |-> noErr]
            ELSE [dirty |-> TRUE, n |-> nn, err |-> noErr]
    [] n.t = "value" -> [dirty |-> TRUE, n |-> nilNode, err |-> noErr]
    [] n.t = "nil" -> notFound(nilNode)
    [] n.t = "hash" ->
         LET rn == resolveHash(d, n, prefix) IN
         IF rn.err # noErr
         THEN [dirty |-> FALSE, n |-> nilNode, err |-> rn.err]
         ELSE LET r == delete(d, rn.n, prefix, key)
              IN IF ~r.dirty \/ r.err # noErr
                 THEN [dirty |-> FALSE, n |-> rn.n, err |-> r.err]
                 ELSE [dirty |-> TRUE, n |-> r.n, err |-> noErr]

(***************************************************************************)
(* The committer.                                                          *)
(***************************************************************************)
\* store: a node without a cached hash is embedded in its parent; every
\* other node is written to the store under its hash and replaced by it
store(n) ==
  IF cache(n).hash = nilNode
  THEN [n |-> n, writes |-> {}]
  ELSE [n |-> cache(n).hash,
        writes |-> {[hash |-> cache(n).hash.h, node |-> simplifyNode(n)]}]

RECURSIVE commit(_)
RECURSIVE commitChildren(_, _, _)

\* the results of commit of a node with committed child(ren) c, stored as st
stored(c, st) ==
  [n |-> st.n,
   committed |-> c.committed + (IF st.n.t = "hash" THEN 1 ELSE 0),
   writes |-> c.writes \cup st.writes]

\* child i of the full node n committed as c, the other children follow
childCommitted(n, i, acc, c) ==
  commitChildren(n, i + 1,
    [n |-> SetChild(acc.n, i, c.n),
     committed |-> acc.committed + c.committed,
     writes |-> acc.writes \cup c.writes])

\* commitChildren, children i..15 of the full node n; acc collects the
\* collapsed node, the number of committed nodes and the writes
commitChildren(n, i, acc) ==
  IF i > 15 THEN acc
  ELSE IF Child(n, i) = nilNode \/ Child(n, i).t = "hash"
       THEN commitChildren(n, i + 1, acc)
       ELSE childCommitted(n, i, acc, commit(Child(n, i)))

\* a short node whose child was committed as c
commitShort(n, c) ==
  stored(c, store([n EXCEPT !.Key = hexToCompact(n.Key), !.Val = c.n]))

commitFull(c) == stored(c, store(c.n))

\* commit collapses a hashed node: children first, then the node itself
commit(n) ==
  IF cache(n).hash # nilNode /\ ~cache(n).dirty
  THEN [n |-> cache(n).hash, committed |-> 0, writes |-> {}]
  ELSE
  CASE n.t = "short" ->
         IF n.Val.t = "full" THEN commitShort(n, commit(n.Val))
         ELSE commitShort(n, [n |-> n.Val, committed |-> 0, writes |-> {}])
    [] n.t = "full" ->
         commitFull(commitChildren(n, 0, [n |-> n, committed |-> 0, writes |-> {}]))
    [] n.t = "hash" -> [n |-> n, committed |-> 0, writes |-> {}]

\* db.insert for every write; a hash already stored keeps its node
dbInsert(d, writes) ==
  [h \in DOMAIN d \cup {w.hash : w \in writes} |->
     IF h \in DOMAIN d THEN d[h] ELSE (CHOOSE w \in writes : w.hash = h).node]

(***************************************************************************)
(* The operations of Trie.  A trie t is [root, unhashed, db].              *)
(***************************************************************************)
\* the threshold of unhashed operations from which hashing runs in parallel
ParallelThreshold == 100

\* TryGet: the value for key; the root is replaced when nodes were resolved
\* (r is the result of tryGet on the root)
gotten(t, r) ==
  [t |-> IF r.err = noErr /\ r.didResolve THEN [t EXCEPT !.root = r.newnode]
         ELSE t,
   value |-> r.value, err |-> r.err]

TryGet(t, key) == gotten(t, tryGet(t.db, t.root, keybytesToHex(key), 0))

\* TryUpdate and TryDelete without t.unhashed++
updatedNoCount(t, r) ==
  IF r.err # noErr THEN [t |-> t, err |-> r.err]
  ELSE [t |-> [t EXCEPT !.root = r.n], err |-> noErr]

\* TryUpdate and TryDelete with t.root = n before the test of err
updatedOnError(t, r) ==
  [t |-> [t EXCEPT !.unhashed = t.unhashed + 1, !.root = r.n], err |-> r.err]

\* t.unhashed++, and the new root unless insert or delete (r) failed
updated(t, r) ==
  IF r.err # noErr
  THEN [t |-> [t EXCEPT !.unhashed = t.unhashed + 1], err |-> r.err]
  ELSE [t |-> [t EXCEPT !.unhashed = t.unhashed + 1, !.root = r.n],
        err |-> noErr]

\* TryDelete removes any existing value for key
TryDelete(t, key) == updated(t, delete(t.db, t.root, << >>, keybytesToHex(key)))

\* TryUpdate without the test for a value of length zero
TryUpdateAlwaysInsert(t, key, value) ==
  updated(t, insert(t.db, t.root, << >>, keybytesToHex(key), valueNode(value)))

\* TryUpdate associates key with value; a value of length zero deletes
TryUpdate(t, key, value) ==
  IF Len(value) # 0
  THEN updated(t, insert(t.db, t.root, << >>, keybytesToHex(key), valueNode(value)))
  ELSE updated(t, delete(t.db, t.root, << >>, keybytesToHex(key)))

\* the results of hashRoot on a non-empty trie: t.unhashed = 0
rootHashed(h) == [hashed |-> h.hashed, cached |-> h.cached, unhashed |-> 0]

\* hashRoot without the case of the empty trie
hashRootNoEmptyCase(t) ==
  rootHashed(hash(t.unhashed >= ParallelThreshold, t.root, TRUE))

\* hashRoot calculates the root hash of the trie
hashRoot(t) ==
  IF t.root = nilNode
  THEN [hashed |-> hashNode(emptyRoot), cached |-> nilNode, unhashed |-> t.unhashed]
  ELSE rootHashed(hash(t.unhashed >= ParallelThreshold, t.root, TRUE))

\* h := newHasher(t.unhashed >= 100) in hashRoot: whether the hasher hashes
\* the children of a full node in parallel (no hasher on an empty trie)
parallelHasher(t) == t.root # nilNode /\ t.unhashed >= ParallelThreshold

\* t.root = cached; the type assertion of the hashed root to hashNode panics
\* when it is no hash node (r is the result of hashRoot)
hashedTrie(t, r) ==
  [t |-> [t EXCEPT !.root = r.cached, !.unhashed = r.unhashed],
   hash |-> IF r.hashed.t = "hash" THEN r.hashed.h ELSE noHash,
   err |-> IF r.hashed.t = "hash" THEN noErr ELSE panicErr]

\* Hash returns the root hash of the trie
Hash(t) == hashedTrie(t, hashRoot(t))

\* the end of Commit without t.root = newRoot
committedTrieKeepRoot(h, c) ==
  [t |-> [h.t EXCEPT !.db = dbInsert(h.t.db, c.writes)],
   hash |-> h.hash, committed |-> c.committed, writes |-> c.writes,
   err |-> noErr]

\* the end of Commit: c is the result of the committer on the hashed trie h.t
committedTrie(h, c) ==
  [t |-> [h.t EXCEPT !.root = c.n, !.db = dbInsert(h.t.db, c.writes)],
   hash |-> h.hash, committed |-> c.committed, writes |-> c.writes,
   err |-> noErr]

\* Commit after rootHash := t.Hash() (h is the result of Hash)
commitHashed(h) ==
  IF h.err # noErr
  THEN [t |-> h.t, hash |-> h.hash, committed |-> 0, writes |-> {}, err |-> h.err]
  ELSE IF ~cache(h.t.root).dirty
  THEN \* nothing to commit: drop the resolved nodes
       [t |-> [h.t EXCEPT !.root = cache(h.t.root).hash],
        hash |-> h.hash, committed |-> 0, writes |-> {}, err |-> noErr]
  ELSE committedTrie(h, commit(h.t.root))

\* Commit (without a leaf callback) writes all dirty nodes to the store
Commit(t) ==
  IF t.root = nilNode
  THEN [t |-> t, hash |-> emptyRoot, committed |-> 0, writes |-> {}, err |-> noErr]
  ELSE commitHashed(Hash(t))

(***************************************************************************)
(* New.  The db argument is a pointer: nil, or a database with its nodes.  *)
(***************************************************************************)
\* common.Hash{}: 32 zero bytes, the digest of no encoding
zeroHash == [pre |-> encBytes(<<-1>>)]

nilDb == [nil |-> TRUE]

database(d) == [nil |-> FALSE, nodes |-> d]

\* the end of newTrie when the root was looked up in the store (r is the
\* result of resolveHash): no trie when the root is missing
rootResolved(d, r) ==
  IF r.err # noErr
  THEN [nil |-> TRUE, err |-> r.err, reads |-> 1]
  ELSE [nil |-> FALSE, t |-> [root |-> r.n, unhashed |-> 0, db |-> d],
        err |-> noErr, reads |-> 1]

\* newTrie without the test for emptyRoot
newTrieZeroOnly(o, rootHash, dbp) ==
  IF dbp.nil THEN [nil |-> TRUE, err |-> panicErr, reads |-> 0]
  ELSE IF rootHash # zeroHash
  THEN rootResolved(dbp.nodes, resolveHash(dbp.nodes, hashNode(rootHash), << >>))
  ELSE [nil |-> FALSE,
        t |-> [root |-> nilNode, unhashed |-> 0, db |-> dbp.nodes],
        err |-> noErr, reads |-> 0]

\* newTrie that leaves the root a hash node
newTrieLazy(o, rootHash, dbp) ==
  IF dbp.nil THEN [nil |-> TRUE, err |-> panicErr, reads |-> 0]
  ELSE IF rootHash # zeroHash /\ rootHash # emptyRoot
  THEN [nil |-> FALSE,
        t |-> [root |-> hashNode(rootHash), unhashed |-> 0, db |-> dbp.nodes],
        err |-> noErr, reads |-> 0]
  ELSE [nil |-> FALSE,
        t |-> [root |-> nilNode, unhashed |-> 0, db |-> dbp.nodes],
        err |-> noErr, reads |-> 0]

\* newTrie: panics without a database; resolves the root from the store
\* unless it is the zero hash or emptyRoot (the trie's owner o is the one
\* owner of the model); reads counts the lookups in the store
newTrie(o, rootHash, dbp) ==
  IF dbp.nil THEN [nil |-> TRUE, err |-> panicErr, reads |-> 0]
  ELSE IF rootHash # zeroHash /\ rootHash # emptyRoot
  THEN rootResolved(dbp.nodes, resolveHash(dbp.nodes, hashNode(rootHash), << >>))
  ELSE [nil |-> FALSE,
        t |-> [root |-> nilNode, unhashed |-> 0, db |-> dbp.nodes],
        err |-> noErr, reads |-> 0]

\* New creates a trie with an existing root node from db
New(o, rootHash, dbp) == newTrie(o, rootHash, dbp)

(***************************************************************************)
(* The state machine: one trie, created by NewEmpty on an empty store, and *)
(* a caller that                                                           *)
(* calls its operations one after the other.                               *)
(*   root, unhashed, db   the fields of the Trie and its node store        *)
(*   model                the value most recently associated with each key *)
(*                        by a successful call, << >> when there is none   *)
(*   last                 the most recent call: its arguments, its results *)
(*                        and what held before it                          *)
(*   nops                 the number of calls made                         *)
(***************************************************************************)
trie == [root |-> root, unhashed |-> unhashed, db |-> db]

\* the root hash Hash() would return for the trie t, t left alone
HashOf(t) == Hash(t).hash

\* the value TryGet would return for key on the trie t, t left alone
GetOf(t, key) == TryGet(t, key).value

\* what Hash() (h) and TryGet of a key (g) return
hashAnswer(h) == [hash |-> h.hash, err |-> h.err]

getAnswer(g) == [value |-> g.value, err |-> g.err]

noKey == << >>

\* nothing to say about the call before the last one
noPrev == [any |-> FALSE]

\* present: the key held a value before the call; before: the root hash
\* before the call; rootWas: the kind of the root node before the call;
\* prev: what a delete or a commit needs to know of the call before it
Record(op, key, val, err, out, prev) ==
  [op |-> op, key |-> key, val |-> val, err |-> err, out |-> out,
   present |-> model[key] # << >>, before |-> HashOf(trie),
   rootWas |-> root.t, prev |-> prev]

\* a short or full node that carries the hash it is stored under
isLoaded(n) == n.t \in {"short", "full"} /\ n.flags.hash # nilNode

Init ==
  /\ root = nilNode
  /\ unhashed = 0
  /\ db = [h \in {} |-> nilNode]
  /\ model = [k \in Keys |-> << >>]
  /\ last = [op |-> "new", key |-> noKey, val |-> << >>, err |-> noErr,
             out |-> [rootHash |-> zeroHash, dbNil |-> FALSE, held |-> FALSE,
                      nil |-> FALSE, reads |-> 0],
             present |-> FALSE, before |-> emptyRoot,
             rootWas |-> "nil", prev |-> noPrev]
  /\ nops = 0
  /\ mem = << >>
  /\ pc = << >>

\* r is the result of TryGet(k)
Got(k, r) ==
  /\ nops < MaxOps
  /\ root' = r.t.root
  /\ last' = Record("get", k, << >>, r.err, r.value, noPrev)
  /\ nops' = nops + 1
  /\ UNCHANGED <<unhashed, db, model, mem, pc>>

GetStep(k) == Got(k, TryGet(trie, k))

\* r is the result of TryUpdate(k, v)
Updated(k, v, r) ==
  /\ nops < MaxOps
  /\ root' = r.t.root
  /\ unhashed' = r.t.unhashed
  /\ model' = IF r.err = noErr THEN [model EXCEPT ![k] = v] ELSE model
  /\ last' = Record("update", k, v, r.err, << >>, noPrev)
  /\ nops' = nops + 1
  /\ UNCHANGED <<db, mem, pc>>

UpdateStep(k, v) == Updated(k, v, TryUpdate(trie, k, v))

\* r is the result of TryDelete(k)
Deleted(k, r) ==
  /\ nops < MaxOps
  /\ root' = r.t.root
  /\ unhashed' = r.t.unhashed
  /\ model' = IF r.err = noErr THEN [model EXCEPT ![k] = << >>] ELSE model
  /\ last' = Record("delete", k, << >>, r.err, << >>,
                    IF last.op = "update" /\ last.key = k /\ last.val # << >>
                       /\ last.err = noErr
                    THEN [any |-> TRUE, fresh |-> ~last.present,
                          before |-> last.before]
                    ELSE noPrev)
  /\ nops' = nops + 1
  /\ UNCHANGED <<db, mem, pc>>

DeleteStep(k) == Deleted(k, TryDelete(trie, k))

\* r is the result of Hash()
Hashed(r) ==
  /\ nops < MaxOps
  /\ root' = r.t.root
  /\ unhashed' = r.t.unhashed
  /\ last' = Record("hash", noKey, << >>, r.err, r.hash, noPrev)
  /\ nops' = nops + 1
  /\ UNCHANGED <<db, model, mem, pc>>

HashStep == Hashed(Hash(trie))

\* r is the result of Commit(nil)
Committed(r) ==
  /\ nops < MaxOps
  /\ root' = r.t.root
  /\ unhashed' = r.t.unhashed
  /\ db' = r.t.db
  /\ last' = Record("commit", noKey, << >>, r.err,
                    [hash |-> r.hash, committed |-> r.committed,
                     writes |-> r.writes],
                    IF last.op = "commit" /\ last.err = noErr
                    THEN [any |-> TRUE, hash |-> last.out.hash]
                    ELSE noPrev)
  /\ nops' = nops + 1
  /\ UNCHANGED <<model, mem, pc>>

CommitStep == Committed(Commit(trie))

Next ==
  \/ \E k \in Keys : GetStep(k)
  \/ \E k \in Keys, v \in Values \cup {<< >>} : UpdateStep(k, v)
  \/ \E k \in Keys : DeleteStep(k)
  \/ HashStep
  \/ CommitStep

Spec == Init /\ [][Next]_vars

\* a trie that is only built: every call is a TryUpdate of a key that holds
\* no value yet, with a non-empty value, or a Hash
BuildStep(k, v) == model[k] = << >> /\ UpdateStep(k, v)

NextBuild ==
  \/ \E k \in Keys, v \in Values : BuildStep(k, v)
  \/ HashStep

SpecBuild == Init /\ [][NextBuild]_vars

(***************************************************************************)
(* A trie on a store that may lack nodes: besides the calls above, the     *)
(* caller opens a trie with New, on no database, on the store, or on a     *)
(* store that lacks one of the nodes.  A New that fails leaves the caller  *)
(* with the trie it had.                                                   *)
(***************************************************************************)
StoreKeys == {<<17>>, <<17, 17>>, <<33>>}

\* the root hashes New is called with: the zero hash, emptyRoot, a hash no
\* node was ever stored under, and the hash of the current root
RootHashes ==
  {zeroHash, emptyRoot, noHash}
    \cup (IF root.t = "hash" THEN {root.h} ELSE {})
    \cup (IF isLoaded(root) THEN {root.flags.hash.h} ELSE {})

without(d, h) == [x \in DOMAIN d \ {h} |-> d[x]]

\* the databases New is called with
Databases ==
  {nilDb, database(db)} \cup {database(without(db, h)) : h \in DOMAIN db}

\* whether the database holds a node under the hash h
holds(dbp, h) == IF dbp.nil THEN FALSE ELSE h \in DOMAIN dbp.nodes

\* r is the result of New(owner, rootHash, dbp)
Opened(rootHash, dbp, r) ==
  /\ nops < MaxOps
  /\ root' = IF r.nil THEN root ELSE r.t.root
  /\ unhashed' = IF r.nil THEN unhashed ELSE r.t.unhashed
  /\ db' = IF r.nil THEN db ELSE r.t.db
  /\ model' = IF ~r.nil /\ r.t.root = nilNode THEN [k \in Keys |-> << >>]
              ELSE model
  /\ last' = Record("new", noKey, << >>, r.err,
                    [rootHash |-> rootHash, dbNil |-> dbp.nil,
                     held |-> holds(dbp, rootHash), nil |-> r.nil,
                     reads |-> r.reads],
                    noPrev)
  /\ UNCHANGED <<nops, mem, pc>>

NewStep(rootHash, dbp) == Opened(rootHash, dbp, New(owner, rootHash, dbp))

NextStore ==
  \/ \E k \in StoreKeys : GetStep(k)
  \/ \E k \in StoreKeys, v \in Values : UpdateStep(k, v)
  \/ \E k \in StoreKeys : DeleteStep(k)
  \/ CommitStep
  \/ \E rootHash \in RootHashes, dbp \in Databases : NewStep(rootHash, dbp)

SpecStore == Init /\ [][NextStore]_vars

(* The key encodings as functions of their own: the state is a hex key     *)
(* (last.in), and the encoding functions are applied to it one after the   *)
(* other (last.op is the function applied last, last.out its result).  The *)
(* trie is not touched.                                                    *)
(***************************************************************************)
\* the length of the hex keys, without the terminator
MaxHexLen == 3

Nibbles == 0..15

\* the hex keys: nibbles, optionally followed by the terminator
HexKeys ==
  LET plain == UNION {[1..n -> Nibbles] : n \in 0..MaxHexLen}
  IN plain \cup {h \o <<16>> : h \in plain}

\* the trie is the empty trie of Init and stays so
InitKey ==
  /\ root = nilNode
  /\ unhashed = 0
  /\ db = [h \in {} |-> nilNode]
  /\ model = [k \in Keys |-> << >>]
  /\ nops = 0
  /\ mem = << >>
  /\ pc = << >>
  /\ last \in {[op |-> "input", in |-> h, out |-> << >>] : h \in HexKeys}

Applied(op, out) ==
  /\ last' = [op |-> op, in |-> last.in, out |-> out]
  /\ UNCHANGED <<root, unhashed, db, model, nops, mem, pc>>

CompactStep == last.op = "input" /\ Applied("hexToCompact", hexToCompact(last.in))

ExpandStep ==
  last.op = "hexToCompact" /\ Applied("compactToHex", compactToHex(last.out))

InPlaceStep ==
  last.op = "input"
    /\ Applied("hexToCompactInPlace", hexToCompactInPlace(last.in))

NextKey == CompactStep \/ ExpandStep \/ InPlaceStep

SpecKey == InitKey /\ [][NextKey]_vars

(***************************************************************************)
(* Writers by type.  A Go type is a record of its name, its reflect kind,  *)
(* the receiver of its EncodeRLP method ("none", "value" or "pointer"),    *)
(* its element type and, for a struct, its public fields.  A value is a    *)
(* record named after the reflect.Value method that reads it: uint, bool,  *)
(* str, bytes, big, elems (of a slice or array), fields (of a struct of    *)
(* strings), nil and elem (of a pointer).  A writer gives the bytes it     *)
(* appended, its error and the writers that ran, in order.                 *)
(***************************************************************************)
noType == [name |-> "", kind |-> "Invalid"]

Type(name, kind, encoder, elem, fields) ==
  [name |-> name, kind |-> kind, encoder |-> encoder, elem |-> elem, fields |-> fields]

\* reflect.PtrTo
PtrTo(typ) == Type("*", "Ptr", "none", typ, << >>)

bigInt == Type("big.Int", "Struct", "none", noType, << >>)

\* typ.Implements(encoderInterface): the method set of a pointer type holds
\* the methods of both receivers, that of any other type those of the value
\* receiver
Implements(typ) ==
  IF typ.kind = "Ptr" THEN typ.elem.encoder # "none" ELSE typ.encoder = "value"

isUint(k) == k \in {"Uint", "Uint8"}

isByte(typ) == typ.kind = "Uint8" /\ ~Implements(typ)

\* rlpstruct.Tags
noTags == [NilOK |-> FALSE, NilKind |-> "String"]

\* rlpstruct.Type.DefaultNilValue
DefaultNilValue(typ) ==
  IF \/ isUint(typ.kind)
     \/ typ.kind = "String"
     \/ typ.kind = "Bool"
     \/ (typ.kind \in {"Slice", "Array"} /\ isByte(typ.elem))
  THEN "String"
  ELSE "List"

\* typeNilKind: the kind of empty value of a nil pointer to typ
typeNilKind(typ, tags) == IF tags.NilOK THEN tags.NilKind ELSE DefaultNilValue(typ)

\* what a writer returns
wrote(name, bytes) == [bytes |-> bytes, err |-> noErr, writers |-> <<name>>]

failed(name, kind) == [bytes |-> << >>, err |-> [kind |-> kind], writers |-> <<name>>]

\* a writer that ran the writer r
ran(name, r) == [r EXCEPT !.writers = <<name>> \o @]

\* the writer r, then the writer s unless r failed
then(r, s) ==
  IF r.err # noErr THEN r
  ELSE [bytes |-> r.bytes \o s.bytes, err |-> s.err, writers |-> r.writers \o s.writers]

\* encBuffer.writeUint64
writeUint64(i) ==
  IF i = 0 THEN <<128>>
  ELSE IF i < 128 THEN <<i>>
  ELSE <<128 + Len(putint(uint64(i)))>> \o putint(uint64(i))

\* encBuffer.writeBool
writeBool(b) == IF b THEN <<1>> ELSE <<128>>

\* encBuffer.writeBigInt, for the big integers below 2^31
writeBigInt(i) == writeUint64(i)

\* the list of the bytes of the writer r, unless r failed
listOf(r) == IF r.err # noErr THEN r ELSE [r EXCEPT !.bytes = listEnd(@)]

\* writeBigIntPtr
writeBigIntPtr(val) ==
  IF val.nil THEN wrote("writeBigIntPtr", <<128>>)
  ELSE IF val.elem.big < 0 THEN failed("writeBigIntPtr", "ErrNegativeBigInt")
  ELSE wrote("writeBigIntPtr", writeBigInt(val.elem.big))

\* writeBigIntNoPtr
writeBigIntNoPtr(val) ==
  IF val.big < 0 THEN failed("writeBigIntNoPtr", "ErrNegativeBigInt")
  ELSE wrote("writeBigIntNoPtr", writeBigInt(val.big))

RECURSIVE makeWriter(_, _, _, _)
RECURSIVE writeElems(_, _, _)

\* the elements i, i+1, ... of the slice or array val written by the writer
\* of the element type
writeElems(etyp, val, i) ==
  IF i > Len(val.elems) THEN [bytes |-> << >>, err |-> noErr, writers |-> << >>]
  ELSE then(makeWriter(etyp, noTags, val.elems[i], TRUE), writeElems(etyp, val, i + 1))

\* makeSliceWriter: the writer of regular slices and arrays
makeSliceWriter(typ, ts, val) ==
  IF Len(val.elems) = 0 THEN wrote("slice", <<192>>)
  ELSE ran("slice", listOf(writeElems(typ.elem, val, 1)))

\* MyCoolType.EncodeRLP: rlp.Encode(w, []uint{x.a, x.b})
EncodeRLP(x) ==
  ran("EncodeRLP",
      makeWriter(Type("[]uint", "Slice", "none", Type("uint", "Uint", "none", noType, << >>),
                      << >>),
                 noTags, [elems |-> <<[uint |-> x.a], [uint |-> x.b]>>], FALSE))

\* makeEncoderWriter: the writer of a type whose pointer type implements
\* Encoder
makeEncoderWriter(typ, val, canAddr) ==
  IF Implements(typ) THEN ran("encoder", EncodeRLP(val))
  ELSE IF ~canAddr THEN failed("encoder", "unadressable value")
  ELSE ran("encoder", EncodeRLP(val))

\* makePtrWriter: the writer of a pointer type
makePtrWriter(typ, ts, val) ==
  IF ~val.nil THEN ran("ptr", makeWriter(typ.elem, noTags, val.elem, TRUE))
  ELSE wrote("ptr", <<IF typeNilKind(typ.elem, ts) = "String" THEN 128 ELSE 192>>)

\* makeWriter: the writer of the type typ with the tags ts, applied to val;
\* canAddr tells whether val is addressable
makeWriter(typ, ts, val, canAddr) ==
  CASE typ = PtrTo(bigInt) -> writeBigIntPtr(val)
    [] typ # PtrTo(bigInt) /\ typ = bigInt -> writeBigIntNoPtr(val)
    [] typ \notin {PtrTo(bigInt), bigInt} /\ typ.kind = "Ptr" -> makePtrWriter(typ, ts, val)
    [] typ \notin {PtrTo(bigInt), bigInt} /\ typ.kind # "Ptr" /\ Implements(PtrTo(typ)) ->
         makeEncoderWriter(typ, val, canAddr)
    [] OTHER ->
         CASE isUint(typ.kind) -> wrote("writeUint", writeUint64(val.uint))
           [] typ.kind = "Bool" -> wrote("writeBool", writeBool(val.bool))
           [] typ.kind = "String" -> wrote("writeString", writeString(val.str))
           [] typ.kind = "Slice" /\ isByte(typ.elem) -> wrote("writeBytes", writeString(val.bytes))
           [] typ.kind = "Array" /\ isByte(typ.elem) ->
                wrote("byteArray", makeByteArrayWriter(val.bytes))
           [] typ.kind \in {"Slice", "Array"} /\ ~isByte(typ.elem) ->
                makeSliceWriter(typ, ts, val)
           [] typ.kind = "Struct" -> wrote("struct", makeStructWriter(typ.fields, val.fields))
           [] OTHER -> failed("makeWriter", "not RLP-serializable")

\* EncodeToBytes: the encoding of val, of the type typ, and the error
EncodeToBytes(typ, val) == makeWriter(typ, noTags, val, FALSE)

(***************************************************************************)
(* Decoding nodes.  The input of decodeNode is taken as the RLP item its   *)
(* bytes hold: a string str(b) or a list of items; the size of an item is  *)
(* the length of its encoding.                                             *)
(***************************************************************************)
str(b) == [k |-> "str", b |-> b]

list(items) == [k |-> "list", items |-> items]

RECURSIVE rlpEncode(_)
RECURSIVE rlpEncodeAll(_, _)

\* the encodings of the items i, i+1, ... one after the other
rlpEncodeAll(items, i) ==
  IF i > Len(items) THEN << >> ELSE rlpEncode(items[i]) \o rlpEncodeAll(items, i + 1)

\* rlp.Encode of a byte slice or of a list of values
rlpEncode(item) ==
  IF item.k = "str" THEN writeString(item.b) ELSE listEnd(rlpEncodeAll(item.items, 1))

hashLen == 32

decoded(n) == [n |-> n, err |-> noErr]

\* a *decodeError and no node
decodeError(what) == [n |-> nilNode, err |-> [kind |-> "decodeError", what |-> what]]

RECURSIVE decodeNode(_, _)
RECURSIVE decodeRef(_)
RECURSIVE decodeChildren(_, _, _)

\* decodeRef that takes every string for a reference
decodeRefAnyString(item) ==
  IF item.k = "list"
  THEN IF Len(rlpEncode(item)) > hashLen THEN decodeError("oversized embedded node")
       ELSE decodeNode(nilNode, item)
  ELSE IF Len(item.b) = 0 THEN decoded(nilNode)
  ELSE decoded(hashNode(item.b))

\* decodeRef: a child of a node, embedded or held by its h
decodeRef(item) ==
  IF item.k = "list"
  THEN IF Len(rlpEncode(item)) > hashLen THEN decodeError("oversized embedded node")
       ELSE decodeNode(nilNode, item)
  ELSE IF Len(item.b) = 0 THEN decoded(nilNode)
  ELSE IF Len(item.b) = hashLen THEN decoded(hashNode(item.b))
  ELSE decodeError("invalid RLP string size")

\* decodeShort: a list of two items, the compact key and the value or child
decodeShort(h, items) ==
  IF items[1].k # "str" THEN decodeError("expected string")
  ELSE IF hasTerm(compactToHex(items[1].b))
  THEN IF items[2].k # "str" THEN decodeError("invalid value node")
       ELSE decoded(shortNode(compactToHex(items[1].b), valueNode(items[2].b),
                              [hash |-> h, dirty |-> FALSE]))
  ELSE IF decodeRef(items[2]).err # noErr THEN decodeRef(items[2])
  ELSE decoded(shortNode(compactToHex(items[1].b), decodeRef(items[2]).n,
                         [hash |-> h, dirty |-> FALSE]))

\* the children i .. 15 of a full node decoded into n
decodeChildren(items, i, n) ==
  IF i > 15 THEN decoded(n)
  ELSE IF decodeRef(items[i + 1]).err # noErr THEN decodeRef(items[i + 1])
  ELSE decodeChildren(items, i + 1, SetChild(n, i, decodeRef(items[i + 1]).n))

\* the value of a full node, its 17th item
withValue(r, item) ==
  IF r.err # noErr THEN r
  ELSE IF item.k # "str" THEN decodeError("expected string")
  ELSE IF Len(item.b) > 0 THEN decoded(SetChild(r.n, 16, valueNode(item.b)))
  ELSE r

\* decodeFull: a list of 17 items
decodeFull(h, items) ==
  withValue(decodeChildren(items, 0, emptyFullNode([hash |-> h, dirty |-> FALSE])),
            items[17])

\* decodeNode: the node an RLP item holds
decodeNode(h, item) ==
  IF item.k # "list" THEN decodeError("expected list")
  ELSE CASE Len(item.items) = 2 -> decodeShort(h, item.items)
         [] Len(item.items) = 17 -> decodeFull(h, item.items)
         [] OTHER -> decodeError("invalid number of list elements")

(***************************************************************************)
(* The genesis block.  A chain configuration is a record of what the       *)
(* calls made on it return; a genesis specification is a record of its     *)
(* Config, its Number, whether its ExtraData holds signers, and an id that *)
(* stands for its other header fields and its Alloc.  The database holds   *)
(* the canonical hash of block 0, the blocks and state roots written, the  *)
(* chain configs by block hash, and the number of the head header.         *)
(***************************************************************************)
nilBig == [nil |-> TRUE]

big(i) == [nil |-> FALSE, i |-> i]

nilConfig == [name |-> "nil"]

\* params.ChainConfig; london stands for IsLondon(0), forkOrderErr for an
\* error of CheckConfigForkOrder, clique for Clique != nil
ChainConfig(name, london, forkOrderErr, clique) ==
  [name |-> name, london |-> london, forkOrderErr |-> forkOrderErr, clique |-> clique,
   TerminalTotalDifficulty |-> nilBig, GrayGlacierBlock |-> nilBig]

MainnetChainConfig == ChainConfig("mainnet", FALSE, FALSE, FALSE)
RopstenChainConfig == ChainConfig("ropsten", FALSE, FALSE, FALSE)
SepoliaChainConfig == ChainConfig("sepolia", FALSE, FALSE, FALSE)
RinkebyChainConfig == ChainConfig("rinkeby", FALSE, FALSE, TRUE)
GoerliChainConfig == ChainConfig("goerli", FALSE, FALSE, TRUE)
KilnChainConfig == ChainConfig("kiln", TRUE, FALSE, FALSE)
AllEthashProtocolChanges == ChainConfig("AllEthashProtocolChanges", TRUE, FALSE, FALSE)

nilGenesis == [nil |-> TRUE]

Genesis(config, id, number, signers) ==
  [nil |-> FALSE, Config |-> config, id |-> id, Number |-> number, signers |-> signers]

DefaultGenesisBlock == Genesis(MainnetChainConfig, "mainnet", 0, FALSE)
DefaultRopstenGenesisBlock == Genesis(RopstenChainConfig, "ropsten", 0, FALSE)
DefaultSepoliaGenesisBlock == Genesis(SepoliaChainConfig, "sepolia", 0, FALSE)
DefaultRinkebyGenesisBlock == Genesis(RinkebyChainConfig, "rinkeby", 0, TRUE)
DefaultGoerliGenesisBlock == Genesis(GoerliChainConfig, "goerli", 0, TRUE)
DefaultKilnGenesisBlock == Genesis(KilnChainConfig, "kiln", 0, FALSE)

\* Genesis.ToBlock: the block of a genesis specification; the base fee of
\* the header depends on the config
ToBlock(g) ==
  [hash |-> [block |-> g.id, number |-> g.Number,
             baseFee |-> (g.Config # nilConfig /\ g.Config.london)],
   root |-> [alloc |-> g.id],
   number |-> g.Number]

MainnetGenesisHash == ToBlock(DefaultGenesisBlock).hash
RopstenGenesisHash == ToBlock(DefaultRopstenGenesisBlock).hash
SepoliaGenesisHash == ToBlock(DefaultSepoliaGenesisBlock).hash
RinkebyGenesisHash == ToBlock(DefaultRinkebyGenesisBlock).hash
GoerliGenesisHash == ToBlock(DefaultGoerliGenesisBlock).hash
KilnGenesisHash == ToBlock(DefaultKilnGenesisBlock).hash

nilHeight == [nil |-> TRUE]

emptyDatabase ==
  [canonical |-> zeroHash, blocks |-> {}, states |-> {}, configs |-> {},
   height |-> nilHeight]

\* rawdb.ReadChainConfig
ReadChainConfig(d, h) ==
  IF \E c \in d.configs : c.hash = h
  THEN (CHOOSE c \in d.configs : c.hash = h).config
  ELSE nilConfig

\* rawdb.WriteChainConfig
WriteChainConfig(d, h, cfg) ==
  [d EXCEPT !.configs = {c \in @ : c.hash # h} \cup {[hash |-> h, config |-> cfg]}]

errNil == [kind |-> "nil"]

errGenesisNoConfig == [kind |-> "errGenesisNoConfig"]

\* a GenesisMismatchError with the two hashes exchanged
GenesisMismatchErrorSwapped(storedHash, newHash) ==
  [kind |-> "GenesisMismatchError", Stored |-> newHash, New |-> storedHash]

GenesisMismatchError(storedHash, newHash) ==
  [kind |-> "GenesisMismatchError", Stored |-> storedHash, New |-> newHash]

\* Genesis.configOrDefault
configOrDefault(g, ghash) ==
  CASE ~g.nil -> g.Config
    [] g.nil /\ ghash = MainnetGenesisHash -> MainnetChainConfig
    [] g.nil /\ ghash = RopstenGenesisHash -> RopstenChainConfig
    [] g.nil /\ ghash = SepoliaGenesisHash -> SepoliaChainConfig
    [] g.nil /\ ghash = RinkebyGenesisHash -> RinkebyChainConfig
    [] g.nil /\ ghash = GoerliGenesisHash -> GoerliChainConfig
    [] g.nil /\ ghash = KilnGenesisHash -> DefaultKilnGenesisBlock.Config
    [] OTHER -> AllEthashProtocolChanges

\* the config Commit checks and writes
commitConfig(g) == IF g.Config = nilConfig THEN AllEthashProtocolChanges ELSE g.Config

\* Genesis.Commit: ToBlock(db) writes the state; the block, the canonical
\* hash, the head and the chain config are written unless a check fails
CommitGenesis(d, g) ==
  CASE ToBlock(g).number # 0 ->
         [err |-> [kind |-> "can't commit genesis block with number > 0"],
          db |-> [d EXCEPT !.states = @ \cup {ToBlock(g).root}]]
    [] ToBlock(g).number = 0 /\ commitConfig(g).forkOrderErr ->
         [err |-> [kind |-> "fork order"],
          db |-> [d EXCEPT !.states = @ \cup {ToBlock(g).root}]]
    [] ToBlock(g).number = 0 /\ ~commitConfig(g).forkOrderErr
         /\ commitConfig(g).clique /\ ~g.signers ->
         [err |-> [kind |-> "can't start clique chain without signers"],
          db |-> [d EXCEPT !.states = @ \cup {ToBlock(g).root}]]
    [] OTHER ->
         [err |-> errNil,
          db |-> WriteChainConfig(
                   [d EXCEPT !.states = @ \cup {ToBlock(g).root},
                             !.blocks = @ \cup {ToBlock(g)},
                             !.canonical = ToBlock(g).hash,
                             !.height = [nil |-> FALSE, n |-> 0]],
                   ToBlock(g).hash, commitConfig(g))]

\* applyOverrides
applyOverrides(config, overrideGrayGlacier, overrideTerminalTotalDifficulty) ==
  IF config = nilConfig THEN config
  ELSE [config EXCEPT
          !.TerminalTotalDifficulty =
             IF overrideTerminalTotalDifficulty # nilBig
             THEN overrideTerminalTotalDifficulty ELSE @,
          !.GrayGlacierBlock =
             IF overrideGrayGlacier # nilBig THEN overrideGrayGlacier ELSE @]

\* a return that gives no config with an error
returnedNilOnError(config, h, err, d) ==
  [config |-> IF err # errNil THEN nilConfig ELSE config, hash |-> h, err |-> err,
   db |-> d]

\* what SetupGenesisBlockWithOverride returns, and the database it leaves
returned(config, h, err, d) == [config |-> config, hash |-> h, err |-> err, db |-> d]

\* the genesis used when none is given, were it the Ropsten one
orDefaultRopsten(genesis) == IF genesis.nil THEN DefaultRopstenGenesisBlock ELSE genesis

\* the genesis that is used when none is given
orDefault(genesis) == IF genesis.nil THEN DefaultGenesisBlock ELSE genesis

\* no stored genesis block: commit the new block
setupCommit(d, g, oGG, oTTD, c) ==
  IF c.err # errNil THEN returned(g.Config, zeroHash, c.err, c.db)
  ELSE returned(applyOverrides(g.Config, oGG, oTTD), ToBlock(g).hash, errNil, c.db)

\* the genesis block is stored but its state is missing
setupRecommit(d, g, storedHash, oGG, oTTD, c) ==
  IF ToBlock(g).hash # storedHash
  THEN returned(g.Config, ToBlock(g).hash,
                GenesisMismatchError(storedHash, ToBlock(g).hash), d)
  ELSE IF c.err # errNil THEN returned(g.Config, ToBlock(g).hash, c.err, c.db)
  ELSE returned(applyOverrides(g.Config, oGG, oTTD), ToBlock(g).hash, errNil, c.db)

\* ChainConfig.CheckCompatible: a config is compatible with itself; for two
\* different configs the result is one of the given outcomes
CheckCompatible(storedcfg, newcfg, outcome) ==
  IF storedcfg = newcfg THEN errNil ELSE outcome

\* the end of the update of the stored config: the compatibility check
setupCheck(d, storedHash, newcfg, compatErr) ==
  IF d.height.nil
  THEN returned(newcfg, storedHash, [kind |-> "missing block number for head header hash"], d)
  ELSE IF compatErr # errNil /\ d.height.n # 0 /\ compatErr.RewindTo # 0
  THEN returned(newcfg, storedHash, compatErr, d)
  ELSE returned(newcfg, storedHash, errNil, WriteChainConfig(d, storedHash, newcfg))

\* the head of the chain is read and the stored config is checked against
\* the new one; outcome is what CheckCompatible returns for two configs
\* that differ
setupCompat(d, storedHash, storedcfg, newcfg, outcome) ==
  setupCheck(d, storedHash, newcfg, CheckCompatible(storedcfg, newcfg, outcome))

\* the genesis block and its state are stored: update the chain config
setupUpdate(d, genesis, storedHash, oGG, oTTD, newcfg, storedcfg, compatErr) ==
  IF newcfg.forkOrderErr
  THEN returned(newcfg, zeroHash, [kind |-> "fork order"], d)
  ELSE IF storedcfg = nilConfig
  THEN returned(newcfg, storedHash, errNil, WriteChainConfig(d, storedHash, newcfg))
  ELSE IF genesis.nil /\ storedHash # MainnetGenesisHash
  THEN setupCompat(d, storedHash, applyOverrides(storedcfg, oGG, oTTD),
                   applyOverrides(storedcfg, oGG, oTTD), compatErr)
  ELSE setupCompat(d, storedHash, storedcfg, newcfg, compatErr)

\* the root of the header of the stored genesis block
storedRoot(d, storedHash) == (CHOOSE b \in d.blocks : b.hash = storedHash).root

\* SetupGenesisBlockWithOverride; compatErr is what CheckCompatible returns
\* for two configs that differ
SetupGenesisBlockWithOverride(d, genesis, oGG, oTTD, compatErr) ==
  IF ~genesis.nil /\ genesis.Config = nilConfig
  THEN returned(AllEthashProtocolChanges, zeroHash, errGenesisNoConfig, d)
  ELSE IF d.canonical = zeroHash
  THEN setupCommit(d, orDefault(genesis), oGG, oTTD, CommitGenesis(d, orDefault(genesis)))
  ELSE IF storedRoot(d, d.canonical) \notin d.states
  THEN setupRecommit(d, orDefault(genesis), d.canonical, oGG, oTTD,
                     CommitGenesis(d, orDefault(genesis)))
  ELSE IF ~genesis.nil /\ ToBlock(genesis).hash # d.canonical
  THEN returned(genesis.Config, ToBlock(genesis).hash,
                GenesisMismatchError(d.canonical, ToBlock(genesis).hash), d)
  ELSE setupUpdate(d, genesis, d.canonical, oGG, oTTD,
                   applyOverrides(configOrDefault(genesis, d.canonical), oGG, oTTD),
                   ReadChainConfig(d, d.canonical), compatErr)

\* SetupGenesisBlock
SetupGenesisBlock(d, genesis, compatErr) ==
  SetupGenesisBlockWithOverride(d, genesis, nilBig, nilBig, compatErr)

(***************************************************************************)
(* Setting up the genesis block of a database that is opened, used and     *)
(* opened again: the chain grows, the state of old blocks is pruned, and a *)
(* database written by an old version has no chain config.                 *)
(***************************************************************************)
MaxHeight == 2

devConfig == ChainConfig("dev", TRUE, FALSE, FALSE)

upgradedConfig == ChainConfig("upgraded", TRUE, FALSE, FALSE)

unorderedConfig == ChainConfig("unordered", TRUE, TRUE, FALSE)

Geneses ==
  {nilGenesis, DefaultGenesisBlock, DefaultRopstenGenesisBlock,
   Genesis(devConfig, "dev", 0, FALSE),
   Genesis(upgradedConfig, "dev", 0, FALSE),
   Genesis(unorderedConfig, "dev", 0, FALSE),
   Genesis(nilConfig, "dev", 0, FALSE),
   Genesis(devConfig, "late", 1, FALSE),
   Genesis(RinkebyChainConfig, "unsigned", 0, FALSE)}

CompatErrors ==
  {errNil, [kind |-> "ConfigCompatError", RewindTo |-> 0],
   [kind |-> "ConfigCompatError", RewindTo |-> 1]}

Overrides == {big(7)}

InitGenesis ==
  /\ root = nilNode
  /\ unhashed = 0
  /\ db = emptyDatabase
  /\ model = [k \in Keys |-> << >>]
  /\ nops = 0
  /\ mem = << >>
  /\ pc = << >>
  /\ last = [op |-> "open", in |-> << >>, out |-> << >>]

Setup(op, in, out) ==
  /\ nops < MaxOps
  /\ nops' = nops + 1
  /\ db' = out.db
  /\ last' = [op |-> op, in |-> in, out |-> out]
  /\ UNCHANGED <<root, unhashed, model, mem, pc>>

SetupStep ==
  \E genesis \in Geneses, compatErr \in CompatErrors :
    Setup("SetupGenesisBlock",
           [db |-> db, genesis |-> genesis, overrideGrayGlacier |-> nilBig,
            overrideTerminalTotalDifficulty |-> nilBig, compatErr |-> compatErr],
           SetupGenesisBlock(db, genesis, compatErr))

SetupOverrideStep ==
  \E genesis \in Geneses, compatErr \in CompatErrors, o \in Overrides :
    Setup("SetupGenesisBlockWithOverride",
           [db |-> db, genesis |-> genesis, overrideGrayGlacier |-> nilBig,
            overrideTerminalTotalDifficulty |-> o, compatErr |-> compatErr],
           SetupGenesisBlockWithOverride(db, genesis, nilBig, o, compatErr))

\* blocks are added to the chain
AdvanceStep ==
  /\ ~db.height.nil
  /\ db.height.n < MaxHeight
  /\ Setup("advance", [db |-> db], [db |-> [db EXCEPT !.height.n = @ + 1]])

\* the state of the genesis block is pruned
PruneStep ==
  /\ db.states # {}
  /\ Setup("prune", [db |-> db], [db |-> [db EXCEPT !.states = {}]])

\* the database was written without a chain config
LegacyStep ==
  /\ db.configs # {}
  /\ Setup("legacy", [db |-> db], [db |-> [db EXCEPT !.configs = {}]])

NextGenesis ==
  SetupStep \/ SetupOverrideStep \/ AdvanceStep \/ PruneStep \/ LegacyStep

SpecGenesis == InitGenesis /\ [][NextGenesis]_vars

(***************************************************************************)
(* Hashing the children of a full node in parallel.  mem is the memory the *)
(* goroutines share: the nodes by address (the input node n and its two    *)
(* copies), the addresses held by collapsed and cached, the encoder buffer *)
(* of every hasher, the hasher pool, for every hasher how many times more *)
(* it was taken than returned (held), the counter of the WaitGroup, and a  *)
(* log of the goroutines' accesses to the children of the nodes and to the *)
(* hashers.  pc holds the position of hashFullNodeChildren (pc.main) and,  *)
(* for the goroutine of every child, its position and its hasher.  The     *)
(* goroutines of the children 0 to Workers - 1 are interleaved step by     *)
(* step; the children from Workers on are nil in every input, and their    *)
(* goroutines run one after the other in one step, each with the hasher    *)
(* the one before it returned to the pool.                                 *)
(***************************************************************************)
Workers == 3

\* the hasher of hashRoot, the goroutine that calls hashFullNodeChildren
\* (the hashers of the pool are alike: the one hashRoot gets is numbered 0)
mainHasher == 0

noHasher == -1

emptyBuffer == encBytes(<< >>)

\* a copy that is the node itself
copyAliased(m, from, to) == [m |-> m, at |-> from]

\* node.copy(): a copy of the node at address from, at the new address to
copy(m, from, to) ==
  [m |-> [m EXCEPT !.obj = [a \in DOMAIN @ \cup {to} |->
                              IF a = to THEN @[from] ELSE @[a]]],
   at |-> to]

\* cached = n.copy(); collapsed = n.copy(), c being the first copy
copies(c, d) == [d.m EXCEPT !.cached = c.at, !.collapsed = d.at]

\* hasherPool.Get: a hasher of the pool, or a new one when the pool is empty
PoolGet(m) == IF m.pool # {} THEN m.pool ELSE {Cardinality(DOMAIN m.hashers)}

\* the hasher id with its buffer, a new one if there is none
withHasher(m, id) ==
  [m EXCEPT !.hashers = [x \in DOMAIN @ \cup {id} |->
                           IF x \in DOMAIN @ THEN @[x] ELSE emptyBuffer],
            !.held = [x \in DOMAIN @ \cup {id} |->
                        IF x \in DOMAIN @ THEN @[x] ELSE 0]]

\* newHasher that leaves the hasher in the pool
newHasherShared(m, id) == [withHasher(m, id) EXCEPT !.held[id] = @ + 1]

\* newHasher: the hasher id is taken out of the pool
newHasher(m, id) == [withHasher(m, id) EXCEPT !.pool = @ \ {id}, !.held[id] = @ + 1]

\* a return that does not put the hasher into the pool
dropHasher(m, id) == m

\* returnHasherToPool: hasherPool.Put(h)
returnHasherToPool(m, id) == [m EXCEPT !.pool = @ \cup {id}, !.held[id] = @ - 1]

\* the accesses of goroutine g
written(m, g, loc) == [m EXCEPT !.writes = @ \cup {[g |-> g, loc |-> loc]}]

wasRead(m, g, loc) == [m EXCEPT !.reads = @ \cup {[g |-> g, loc |-> loc]}]

\* Children[i] of the node at address a
slot(a, i) == [obj |-> a, i |-> i]

\* wg.Wait that does not wait
WaitNothing(wg) == TRUE

\* wg.Wait returns when the counter is zero
Wait(wg) == wg = 0

\* the child has to be encoded to be hashed: it has no cached hash and is a
\* short or a full node
toEncode(c) == c.t \in {"short", "full"} /\ cache(c).hash = nilNode

\* the children of c hashed, by the goroutine's own hasher
collapsedChild(c) ==
  IF c.t = "short" THEN hashShortNodeChildren(FALSE, c)
  ELSE hashFullNodeChildren(FALSE, c, c, 0)

\* shortnodeToHash and fullnodeToHash after n.encode(h.encbuf): enc is what
\* h.encodedBytes() returns
encodedToHash(n, enc, force) ==
  IF Len(enc.bytes) < 32 /\ ~force THEN n ELSE hashData(enc)

\* hasher.hash(c, false) by a hasher whose encodedBytes() returns enc
hashedChild(c, enc) ==
  IF toEncode(c)
  THEN withHash(encodedToHash(collapsedChild(c).collapsed, enc, FALSE),
                collapsedChild(c).cached)
  ELSE hash(FALSE, c, FALSE)

\* collapsed.Children[i], cached.Children[i] = hasher.hash(child, false)
assigned(m, i, sub) ==
  [m EXCEPT !.obj[m.collapsed] = SetChild(@, i, sub.hashed),
            !.obj[m.cached] = SetChild(@, i, sub.cached)]

\* h.encodedBytes() resets the buffer
reset(m, id) == [m EXCEPT !.hashers[id] = emptyBuffer]

smallLeaf == shortNode(<<1, 16>>, valueNode(SmallVal), newFlag)

largeLeaf == shortNode(<<2, 16>>, valueNode(LargeVal), newFlag)

ChildNodes == <<largeLeaf, smallLeaf, nilNode, largeLeaf>>

\* the full nodes that are hashed: the children 0 .. Workers - 1 are taken
\* from ChildNodes in turn, starting anywhere; the others are nil
FullNodes ==
  {[emptyFullNode(newFlag) EXCEPT
      !.Children = [i \in 1..17 |->
                      IF i <= Workers THEN ChildNodes[((i + k) % Len(ChildNodes)) + 1]
                      ELSE nilNode]] :
     k \in 1..Len(ChildNodes)}

goroutine(at, h) == [at |-> at, h |-> h]

InitPar ==
  /\ root \in FullNodes
  /\ unhashed = ParallelThreshold
  /\ db = [h \in {} |-> nilNode]
  /\ model = [k \in Keys |-> << >>]
  /\ nops = 0
  /\ last = [op |-> "hash", in |-> << >>, out |-> << >>]
  /\ \E pool \in {{}, {mainHasher, 1}} :
       mem = [obj |-> [a \in {"n"} |-> root], collapsed |-> "n", cached |-> "n",
              hashers |-> [x \in pool |-> emptyBuffer],
              held |-> [x \in pool |-> 0],
              pool |-> pool, wg |-> 0, writes |-> {}, reads |-> {}]
  /\ pc = [main |-> "hashRoot", w |-> [i \in 0..15 |-> goroutine("none", noHasher)]]

Ran(m, p) ==
  /\ mem' = m
  /\ pc' = p
  /\ UNCHANGED <<root, unhashed, db, model, last, nops>>

\* hashRoot: h := newHasher(t.unhashed >= 100)
RootStep ==
  /\ pc.main = "hashRoot"
  /\ root # nilNode
  /\ mainHasher \in PoolGet(mem)
  /\ Ran(newHasher(mem, mainHasher), [pc EXCEPT !.main = "copy"])

\* cached = n.copy(); collapsed = n.copy(); wg.Add(16)
CopyStep ==
  /\ pc.main = "copy"
  /\ unhashed >= ParallelThreshold
  /\ Ran([copies(copy(mem, "n", "cached"),
                 copy(copy(mem, "n", "cached").m, "n", "collapsed"))
            EXCEPT !.wg = 16],
         [pc EXCEPT !.main = "go"])

\* the go statements
GoStep ==
  /\ pc.main = "go"
  /\ Ran(mem, [main |-> "wait", w |-> [i \in 0..15 |-> goroutine("go", noHasher)]])

\* hasher := newHasher(false), which writes hasher.parallel
NewHasherStep(i) ==
  /\ pc.w[i].at = "go"
  /\ \E id \in PoolGet(mem) :
       Ran(written(newHasher(mem, id), i, [hasher |-> id]),
           [pc EXCEPT !.w[i] = goroutine("hasher", id)])

\* child := n.Children[i]; a child that is to be hashed is encoded into the
\* buffer of the hasher
ChildStep(i) ==
  /\ pc.w[i].at = "hasher"
  /\ IF toEncode(Child(mem.obj["n"], i))
     THEN Ran(written(wasRead([mem EXCEPT !.hashers[pc.w[i].h] =
                                 encCat(@, encode(collapsedChild(
                                                    Child(mem.obj["n"], i)).collapsed))],
                              i, slot("n", i)),
                      i, [hasher |-> pc.w[i].h]),
              [pc EXCEPT !.w[i].at = "child"])
     ELSE Ran(wasRead(mem, i, slot("n", i)), [pc EXCEPT !.w[i].at = "child"])

\* the encoded bytes are taken from the buffer and the results are
\* assigned; a nil child gives collapsed.Children[i] = nilValueNode
AssignStep(i) ==
  /\ pc.w[i].at = "child"
  /\ IF Child(mem.obj["n"], i) = nilNode
     THEN Ran(written([mem EXCEPT !.obj[mem.collapsed] = SetChild(@, i, nilValueNode)],
                      i, slot(mem.collapsed, i)),
              [pc EXCEPT !.w[i].at = "assigned"])
     ELSE Ran(written(written(
                assigned(reset(mem, pc.w[i].h), i,
                         hashedChild(Child(mem.obj["n"], i), mem.hashers[pc.w[i].h])),
                i, slot(mem.collapsed, i)), i, slot(mem.cached, i)),
              [pc EXCEPT !.w[i].at = "assigned"])

\* returnHasherToPool(hasher)
ReturnStep(i) ==
  /\ pc.w[i].at = "assigned"
  /\ Ran(returnHasherToPool(mem, pc.w[i].h),
         [pc EXCEPT !.w[i] = goroutine("returned", noHasher)])

\* wg.Done()
DoneStep(i) ==
  /\ pc.w[i].at = "returned"
  /\ Ran([mem EXCEPT !.wg = @ - 1], [pc EXCEPT !.w[i] = goroutine("done", noHasher)])

RECURSIVE nilChildren(_, _, _)
\* the goroutines of the children i .. 15, which are nil, with the hasher id
nilChildren(m, i, id) ==
  IF i > 15 THEN m
  ELSE nilChildren(
         returnHasherToPool(
           written(written(wasRead(
             [newHasher(m, id) EXCEPT
                !.obj[m.collapsed] = SetChild(@, i, nilValueNode), !.wg = @ - 1],
             i, slot("n", i)), i, [hasher |-> id]), i, slot(m.collapsed, i)),
           id),
         i + 1, id)

\* the goroutines of the children from Workers on run
RestStep ==
  /\ pc.w[15].at = "go"
  /\ \E id \in PoolGet(mem) :
       Ran(nilChildren(mem, Workers, id),
           [pc EXCEPT !.w = [i \in 0..15 |-> IF i >= Workers
                                               THEN goroutine("done", noHasher)
                                               ELSE @[i]]])

\* wg.Wait() returns, and so do hash, with the hash of the collapsed node,
\* and hashRoot, with its deferred returnHasherToPool(h)
WaitStep ==
  /\ pc.main = "wait"
  /\ Wait(mem.wg)
  /\ mem' = returnHasherToPool(mem, mainHasher)
  /\ pc' = [pc EXCEPT !.main = "returned"]
  /\ last' = [op |-> "hash", in |-> root,
              out |-> hashFull([collapsed |-> mem.obj[mem.collapsed],
                                cached |-> mem.obj[mem.cached]], TRUE)]
  /\ UNCHANGED <<root, unhashed, db, model, nops>>

WorkerStep ==
  \E i \in 0..(Workers - 1) :
    NewHasherStep(i) \/ ChildStep(i) \/ AssignStep(i) \/ ReturnStep(i) \/ DoneStep(i)

NextPar == RootStep \/ CopyStep \/ GoStep \/ WorkerStep \/ RestStep \/ WaitStep

SpecPar == InitPar /\ [][NextPar]_vars

(***************************************************************************)
(* The type cache.  A type stands for its typekey (the tags are empty).    *)
(* mem holds the typeCache: the maps that were made, each from its keys to *)
(* the typeinfo it points to (the number of the typeinfo among those made  *)
(* for the key), cur and next as the numbers of their maps (0 for nil),    *)
(* the holder of mu (0 when it is unlocked), for every key the number of   *)
(* typeinfos made and whether generate has returned on the last one, and   *)
(* for every map what it held when it was stored in cur.  pc holds for     *)
(* every goroutine its position in info and generate and the calls of      *)
(* infoWhileGenerating that have not returned, the innermost first.        *)
(***************************************************************************)
Goroutines == 2

\* the calls of infoWhileGenerating in progress at which generation is
\* given up
MaxDepth == 5

\* uint; type T struct { V uint; Next *T }; type S struct { Kids []S }
Types == {"uint", "T", "*T", "S", "[]S"}

\* the types makeWriter looks up with infoWhileGenerating: the fields of a
\* struct, the element of a pointer and of a slice
elems(typ) ==
  CASE typ = "T" -> <<"uint", "*T">>
    [] typ = "*T" -> <<"T">>
    [] typ = "S" -> <<"[]S">>
    [] typ = "[]S" -> <<"S">>
    [] OTHER -> << >>

\* the types makeDecoder looks up with infoWhileGenerating
decoderElems(typ) == elems(typ)

\* typeinfo.generate: makeDecoder, then makeWriter
lookups(typ) == decoderElems(typ) \o elems(typ)

nilMap == 0

unlocked == 0

\* new(typeinfo)
newTypeinfo == [made |-> 0, done |-> FALSE]

\* make(map[typekey]*typeinfo)
emptyMap == [k \in {} |-> 0]

\* newTypeCache
newTypeCache ==
  [maps |-> <<emptyMap>>, stored |-> <<[is |-> TRUE, keys |-> emptyMap]>>, cur |-> 1,
   next |-> nilMap, mu |-> unlocked, infos |-> [k \in Types |-> newTypeinfo]]

\* c.cur.Load().(map[typekey]*typeinfo)
Load(c) == c.maps[c.cur]

\* c.next = cur: the snapshot itself instead of a copy
aliasCur(c) == [c EXCEPT !.next = c.cur]

\* c.next = make(...) without the entries of cur
makeNext(c) ==
  [c EXCEPT !.maps = Append(@, emptyMap),
            !.stored = Append(@, [is |-> FALSE, keys |-> emptyMap]),
            !.next = Len(c.maps) + 1]

\* c.next = make(...) with the entries of cur copied
copyCur(c) ==
  [c EXCEPT !.maps = Append(@, Load(c)),
            !.stored = Append(@, [is |-> FALSE, keys |-> emptyMap]),
            !.next = Len(c.maps) + 1]

\* a lookup in c.next that finds nothing
lookupNothing(c, key) == FALSE

\* info := c.next[key]; info != nil
lookup(c, key) == key \in DOMAIN c.maps[c.next]

\* info := new(typeinfo); c.next[key] = info
putDummy(c, key) ==
  [c EXCEPT !.maps[c.next] = [k \in DOMAIN @ \cup {key} |->
                                IF k = key THEN c.infos[key].made + 1 ELSE @[k]],
            !.infos[key] = [made |-> @.made + 1, done |-> FALSE]]

\* the end of info.generate(typ, tags): decoder and writer are set
generated(c, key) == [c EXCEPT !.infos[key].done = TRUE]

\* c.cur.Store(c.next)
Store(c) ==
  [c EXCEPT !.cur = c.next,
            !.stored[c.next] = [is |-> TRUE, keys |-> c.maps[c.next]]]

\* the typeinfo the map id holds for key
entry(c, id, key) == [made |-> c.maps[id][key], done |-> c.infos[key].done]

\* if info := cur[key]; info != nil, in generate under the lock
curHolds(c, key) == key \in DOMAIN Load(c)

\* a call of infoWhileGenerating: before the lookup, or in info.generate
\* before the lookup of element i
frame(key, at, i) == [key |-> key, at |-> at, i |-> i]

idle == [at |-> "idle", typ |-> "uint", stack |-> << >>, out |-> << >>, hit |-> FALSE]

InitCache ==
  /\ root = nilNode
  /\ unhashed = 0
  /\ db = [h \in {} |-> nilNode]
  /\ model = [k \in Keys |-> << >>]
  /\ nops = 0
  /\ last = [op |-> "newTypeCache", in |-> << >>, out |-> << >>]
  /\ mem = newTypeCache
  /\ pc = [g \in 1..Goroutines |-> idle]

Stepped(c, g, p) ==
  /\ mem' = c
  /\ pc' = [pc EXCEPT ![g] = p]
  /\ UNCHANGED <<root, unhashed, db, model, last, nops>>

\* a goroutine calls info(typ)
CallStep(g) ==
  /\ pc[g].at \in {"idle", "returned"}
  /\ nops < MaxOps
  /\ \E typ \in Types :
       /\ mem' = mem
       /\ pc' = [pc EXCEPT ![g] = [idle EXCEPT !.at = "info", !.typ = typ]]
       /\ nops' = nops + 1
       /\ UNCHANGED <<root, unhashed, db, model, last>>

\* info: the lookup in the current snapshot, without the lock
InfoStep(g) ==
  /\ pc[g].at = "info"
  /\ IF pc[g].typ \in DOMAIN Load(mem)
     THEN Stepped(mem, g, [pc[g] EXCEPT !.at = "returned",
                                        !.out = entry(mem, mem.cur, pc[g].typ)])
     ELSE Stepped(mem, g, [pc[g] EXCEPT !.at = "generate"])

\* generate: c.mu.Lock()
LockStep(g) ==
  /\ pc[g].at = "generate"
  /\ mem.mu = unlocked
  /\ Stepped([mem EXCEPT !.mu = g], g, [pc[g] EXCEPT !.at = "locked"])

\* generate: the second lookup in cur, and the copy of cur to next
CopyCurStep(g) ==
  /\ pc[g].at = "locked"
  /\ IF curHolds(mem, pc[g].typ)
     THEN Stepped(mem, g, [pc[g] EXCEPT !.at = "unlock",
                                        !.out = entry(mem, mem.cur, pc[g].typ)])
     ELSE Stepped(copyCur(mem), g,
                  [pc[g] EXCEPT !.at = "generating",
                                !.stack = <<frame(pc[g].typ, "lookup", 0)>>])

\* infoWhileGenerating: the lookup in c.next; the info found is returned,
\* or else the dummy is put into c.next
LookupStep(g) ==
  /\ pc[g].at = "generating"
  /\ pc[g].stack # << >>
  /\ Head(pc[g].stack).at = "lookup"
  /\ IF lookup(mem, Head(pc[g].stack).key)
     THEN Stepped(mem, g,
                  [pc[g] EXCEPT !.stack = Tail(@),
                                !.hit = @ \/ ~mem.infos[Head(pc[g].stack).key].done])
     ELSE Stepped(putDummy(mem, Head(pc[g].stack).key), g,
                  [pc[g] EXCEPT !.stack[1] = frame(@.key, "generate", 1)])

\* info.generate: infoWhileGenerating is called for the next element type
ElemStep(g) ==
  /\ pc[g].at = "generating"
  /\ pc[g].stack # << >>
  /\ Head(pc[g].stack).at = "generate"
  /\ Head(pc[g].stack).i <= Len(lookups(Head(pc[g].stack).key))
  /\ Len(pc[g].stack) < MaxDepth
  /\ Stepped(mem, g,
             [pc[g] EXCEPT !.stack =
                <<frame(lookups(Head(@).key)[Head(@).i], "lookup", 0),
                  frame(Head(@).key, "generate", Head(@).i + 1)>> \o Tail(@)])

\* info.generate returns, and so does infoWhileGenerating
GeneratedStep(g) ==
  /\ pc[g].at = "generating"
  /\ pc[g].stack # << >>
  /\ Head(pc[g].stack).at = "generate"
  /\ Head(pc[g].stack).i > Len(lookups(Head(pc[g].stack).key))
  /\ Stepped(generated(mem, Head(pc[g].stack).key), g,
             [pc[g] EXCEPT !.stack = Tail(@)])

\* generate: c.cur.Store(c.next)
StoreStep(g) ==
  /\ pc[g].at = "generating"
  /\ pc[g].stack = << >>
  /\ Stepped(Store(mem), g, [pc[g] EXCEPT !.at = "stored",
                                          !.out = entry(mem, mem.next, pc[g].typ)])

\* generate: c.next = nil
ClearStep(g) ==
  /\ pc[g].at = "stored"
  /\ Stepped([mem EXCEPT !.next = nilMap], g, [pc[g] EXCEPT !.at = "unlock"])

\* generate returns: the deferred c.mu.Unlock()
UnlockStep(g) ==
  /\ pc[g].at = "unlock"
  /\ Stepped([mem EXCEPT !.mu = unlocked], g, [pc[g] EXCEPT !.at = "returned"])

GoroutineStep(g) ==
  \/ CallStep(g) \/ InfoStep(g) \/ LockStep(g) \/ CopyCurStep(g) \/ LookupStep(g)
  \/ ElemStep(g) \/ GeneratedStep(g) \/ StoreStep(g) \/ ClearStep(g) \/ UnlockStep(g)

NextCache == \E g \in 1..Goroutines : GoroutineStep(g)

SpecCache == InitCache /\ [][NextCache]_vars

\* a goroutine that can run is run at some time
SpecCacheFair == SpecCache /\ WF_vars(NextCache)

(***************************************************************************)
(* The RLP writers as pure functions: a size, a string or a struct value   *)
(* is chosen in the initial state and the writers are applied to it.       *)
(***************************************************************************)
MaxFields == 4

\* the tags of string headers and of list headers
HeadTags == {[smalltag |-> 128, largetag |-> 183], [smalltag |-> 192, largetag |-> 247]}

\* the sizes around 56, and for every number n of bytes sizes of exactly n
\* bytes: the first byte 1, 56 or 255, every other byte 0 or 255
Sizes ==
  {uint64(i) : i \in 0..57}
    \cup UNION {{[j \in 1..8 |-> IF j <= 8 - n THEN 0
                                 ELSE IF j = 9 - n THEN lead ELSE tail[j - (9 - n)]] :
                   lead \in {1, 56, 255}, tail \in [1..(n - 1) -> {0, 255}]} :
                n \in 1..8}

dog == <<100, 111, 103>>

\* the empty string, every string of one byte, "dog", and strings of the
\* lengths around 56 and 256
Strings ==
  {<< >>, dog} \cup {<<b>> : b \in 0..255}
    \cup {[i \in 1..n |-> 97] : n \in {2, 55, 56, 255, 256}}

\* a struct type: its fields in order; after an optional field every field
\* is optional
StructTypes ==
  {fields \in UNION {[1..n -> [optional : BOOLEAN]] : n \in 0..MaxFields} :
     \A i, j \in 1..Len(fields) : (i < j /\ fields[i].optional) => fields[j].optional}

\* the values of a struct type with fields of type string: field i holds the
\* empty string or the string of the one byte i
StructValues(fields) ==
  {val \in [1..Len(fields) -> {<< >>} \cup {<<i>> : i \in 1..Len(fields)}] :
     \A i \in 1..Len(fields) : val[i] \in {<< >>, <<i>>}}

\* the types of the values encoded
uintType == Type("uint", "Uint", "none", noType, << >>)
byteType == Type("uint8", "Uint8", "none", noType, << >>)
encByteType == Type("encByte", "Uint8", "value", noType, << >>)
stringType == Type("string", "String", "none", noType, << >>)
boolType == Type("bool", "Bool", "none", noType, << >>)
bytesType == Type("[]byte", "Slice", "none", byteType, << >>)
byteArrayType == Type("[3]byte", "Array", "none", byteType, << >>)
uintSliceType == Type("[]uint", "Slice", "none", uintType, << >>)
uintArrayType == Type("[2]uint", "Array", "none", uintType, << >>)
encByteSliceType == Type("[]encByte", "Slice", "none", encByteType, << >>)
structType == Type("struct", "Struct", "none", noType, <<[optional |-> FALSE]>>)
MyCoolType == Type("MyCoolType", "Struct", "pointer", noType, <<[optional |-> FALSE]>>)
MyValueType == Type("MyValueType", "Struct", "value", noType, <<[optional |-> FALSE]>>)

foobar == <<102, 111, 111, 98, 97, 114>>

\* the value ExampleEncoder constructs
exampleValue == [Name |-> foobar, a |-> 2, b |-> 6]

\* the values of each type that are encoded
ValuesOf(typ) ==
  CASE typ \in {uintType, byteType} -> {[uint |-> i] : i \in {0, 6, 1024}}
    [] typ = bigInt -> {[big |-> i] : i \in {0, 6, 1024}}
    [] typ = stringType -> {[str |-> << >>], [str |-> dog]}
    [] typ = boolType -> {[bool |-> b] : b \in BOOLEAN}
    [] typ \in {bytesType, byteArrayType} -> {[bytes |-> dog]}
    [] typ = uintSliceType -> {[elems |-> << >>], [elems |-> <<[uint |-> 2], [uint |-> 6]>>]}
    [] typ = uintArrayType -> {[elems |-> <<[uint |-> 2], [uint |-> 6]>>]}
    [] typ = structType -> {[fields |-> <<dog>>]}
    [] typ \in {MyCoolType, MyValueType} ->
         {exampleValue, [Name |-> foobar, a |-> 5, b |-> 6]}
    [] OTHER -> {}

PointeeTypes ==
  {uintType, byteType, stringType, boolType, bytesType, byteArrayType, uintSliceType,
   uintArrayType, encByteSliceType, structType, MyCoolType, MyValueType, bigInt}

\* no tag, and the tags nilString and nilList of a pointer field
NilTags ==
  {noTags, [NilOK |-> TRUE, NilKind |-> "String"], [NilOK |-> TRUE, NilKind |-> "List"]}

\* a value of every type, and of every pointer type the nil pointer and a
\* pointer to every value
Encodables ==
  UNION {{[kind |-> "value", typ |-> t, ts |-> noTags, val |-> v] : v \in ValuesOf(t)}
           \cup {[kind |-> "value", typ |-> PtrTo(t), ts |-> ts, val |-> [nil |-> TRUE]] :
                   ts \in NilTags}
           \cup {[kind |-> "value", typ |-> PtrTo(t), ts |-> ts,
                  val |-> [nil |-> FALSE, elem |-> v]] :
                   ts \in NilTags, v \in ValuesOf(t)} :
         t \in PointeeTypes}

\* newTestFullNode: child i is 32 bytes of i + 1, the value is v
newTestFullNode(v) ==
  [i \in 1..17 |-> IF i <= 16 THEN str([j \in 1..32 |-> i]) ELSE str(v)]

fullnodeValue == <<102, 117, 108, 108, 110, 111, 100, 101>>

subnode == <<115, 117, 98, 110, 111, 100, 101>>

\* a list of 17 items: 16 times the child c, then "subnode"
nested(c) == list([i \in 1..17 |-> IF i <= 16 THEN c ELSE str(subnode)])

\* the items put in the place of one child of the full node: strings of 0,
\* 2, 6, 32 and 33 bytes, the nested node of TestDecodeNestedNode, that of
\* TestDecodeFullNodeWrongNestedFullNode, a small nested list with a child
\* of two bytes, a list of three items, and an embedded short node
ChildItems ==
  {str(<< >>), str(<<48, 48>>), str(<<49, 50, 51, 52, 53, 54>>),
   str([j \in 1..32 |-> 170]), str([j \in 1..33 |-> 170]),
   nested(str(<< >>)), nested(str(<<49, 50, 51, 52, 53, 54>>)),
   list([i \in 1..17 |-> IF i = 3 THEN str(<<48, 48>>) ELSE str(<< >>)]),
   list(<<str(<<1>>), str(<<2>>), str(<<3>>)>>),
   list(<<str(<<32, 17>>), str(<<1>>)>>)}

\* the inputs of decodeNode: the full node of the tests with one child
\* replaced, lists of other lengths, and a string
NodeItems ==
  {list([newTestFullNode(fullnodeValue) EXCEPT ![pos] = c]) :
     pos \in 1..16, c \in ChildItems}
    \cup {list(newTestFullNode(fullnodeValue)),
          list(<<str(<<32, 17>>), str(<<1>>)>>),
          list(<<str(<<0, 17>>), str(<<48, 48>>)>>),
          list(<<str(<<1>>), str(<<2>>), str(<<3>>)>>),
          str(<<1>>)}

RlpInputs ==
  {[kind |-> "size", size |-> s, tags |-> t] : s \in Sizes, t \in HeadTags}
    \cup {[kind |-> "string", s |-> s] : s \in Strings}
    \cup UNION {{[kind |-> "struct", fields |-> f, val |-> v] : v \in StructValues(f)} :
                f \in StructTypes}
    \cup Encodables
    \cup {[kind |-> "node", item |-> n] : n \in NodeItems}

InitRlp ==
  /\ root = nilNode
  /\ unhashed = 0
  /\ db = [h \in {} |-> nilNode]
  /\ model = [k \in Keys |-> << >>]
  /\ nops = 0
  /\ mem = << >>
  /\ pc = << >>
  /\ last \in {[op |-> "input", in |-> x, out |-> << >>] : x \in RlpInputs}

PutHeadStep ==
  /\ last.op = "input"
  /\ last.in.kind = "size"
  /\ Applied("puthead",
             [head |-> puthead(last.in.tags.smalltag, last.in.tags.largetag, last.in.size),
              headsize |-> headsize(last.in.size),
              intsize |-> intsize(last.in.size)])

WriteStringStep ==
  /\ last.op = "input"
  /\ last.in.kind = "string"
  /\ Applied("writeString", writeString(last.in.s))

ByteArrayStep ==
  /\ last.op = "input"
  /\ last.in.kind = "string"
  /\ Applied("makeByteArrayWriter", makeByteArrayWriter(last.in.s))

StructStep ==
  /\ last.op = "input"
  /\ last.in.kind = "struct"
  /\ Applied("makeStructWriter", makeStructWriter(last.in.fields, last.in.val))

EncodeStep ==
  /\ last.op = "input"
  /\ last.in.kind = "value"
  /\ Applied("makeWriter", makeWriter(last.in.typ, last.in.ts, last.in.val, FALSE))

DecodeStep ==
  /\ last.op = "input"
  /\ last.in.kind = "node"
  /\ Applied("decodeNode", decodeNode(nilNode, last.in.item))

NextRlp ==
  PutHeadStep \/ WriteStringStep \/ ByteArrayStep \/ StructStep \/ EncodeStep
    \/ DecodeStep

SpecRlp == InitRlp /\ [][NextRlp]_vars

(***************************************************************************)
(* What the properties below speak about.                                  *)
(***************************************************************************)
emptyTrie == [root |-> nilNode, unhashed |-> 0, db |-> [h \in {} |-> nilNode]]

\* the keys in one fixed order
KeyOrder == << << >>, <<17>>, <<17, 17>>, <<18>>, <<33>> >>

\* the trie built from the empty trie by a TryUpdate of every key that has a
\* value in m, in the order of KeyOrder, from the i-th key on
RECURSIVE builtInOrder(_, _, _)
builtInOrder(t, m, i) ==
  IF i > Len(KeyOrder) THEN t
  ELSE IF m[KeyOrder[i]] # << >>
       THEN builtInOrder(TryUpdate(t, KeyOrder[i], m[KeyOrder[i]]).t, m, i + 1)
       ELSE builtInOrder(t, m, i + 1)

\* the node itself, or the node the store holds for a hash node
loaded(d, n) == IF n.t = "hash" /\ n.h \in DOMAIN d THEN dbNode(d, n.h) ELSE n

\* no short node below n, in memory or in the store, has a short node as
\* its child
RECURSIVE NoShortBelowShort(_, _)
NoShortBelowShort(d, n) ==
  CASE loaded(d, n).t = "short" ->
         /\ loaded(d, loaded(d, n).Val).t # "short"
         /\ NoShortBelowShort(d, loaded(d, n).Val)
    [] loaded(d, n).t = "full" ->
         \A i \in 0..16 : NoShortBelowShort(d, Child(loaded(d, n), i))
    [] OTHER -> TRUE

\* every full node below n, in memory or in the store, has at least two
\* non-nil entries
RECURSIVE FullNodesBranch(_, _)
FullNodesBranch(d, n) ==
  CASE loaded(d, n).t = "short" -> FullNodesBranch(d, loaded(d, n).Val)
    [] loaded(d, n).t = "full" ->
         /\ Cardinality({i \in 0..16 : Child(loaded(d, n), i) # nilNode}) >= 2
         /\ \A i \in 0..16 : FullNodesBranch(d, Child(loaded(d, n), i))
    [] OTHER -> TRUE

NoKeys == \A k \in Keys : model[k] = << >>

(***************************************************************************)
(* The properties.                                                         *)
(***************************************************************************)
\* C1: every key whose most recent operation was a TryUpdate with a
\* non-empty value v is found by TryGet, with the value v and a nil error
C1_GetAfterUpdate ==
  \A k \in Keys :
    model[k] # << >> =>
      /\ TryGet(trie, k).value = model[k]
      /\ TryGet(trie, k).err = noErr

\* a key and a key it is a prefix of hold values, in a trie that is to be
\* loaded from the store
C1_Witness ==
  /\ model[<<17>>] # << >>
  /\ model[<<17, 17>>] # << >>
  /\ root.t = "hash"

\* C2: a trie built by TryUpdate calls alone has the root hash of the trie
\* built from the same pairs in the order of KeyOrder, whatever the order
\* of the calls was
C2_OrderIndependent ==
  HashOf(trie) = HashOf(builtInOrder(emptyTrie, model, 1))

\* three keys were inserted, the last of them before one that KeyOrder
\* puts first
C2_Witness ==
  /\ Cardinality({k \in Keys : model[k] # << >>}) >= 3
  /\ last.op = "update"
  /\ last.key = << >>

\* C3: after every operation no short node reachable from the root has a
\* short node as its direct child
C3_NoShortBelowShort == NoShortBelowShort(db, root)

\* a delete on a trie that was not loaded collapsed the root's full node
\* onto its remaining child, a leaf the full node held by hash
C3_Witness ==
  /\ last.op = "delete"
  /\ last.present
  /\ last.rootWas = "hash"
  /\ root.t = "short"
  /\ root.Val = valueNode(LargeVal)

\* C4: after every operation every full node reachable from the root has at
\* least two non-nil entries
C4_FullNodesBranch == FullNodesBranch(db, root)

\* a delete left the root's full node with one entry and replaced it by a
\* short node
C4_Witness ==
  /\ last.op = "delete"
  /\ last.present
  /\ last.rootWas = "full"
  /\ root.t = "short"

\* the trie after the step
trieAfter == [root |-> root', unhashed |-> unhashed', db |-> db']

\* the step is a call of op on key k
Called(op, k) == nops' = nops + 1 /\ last'.op = op /\ last'.key = k

\* the encoding of the root short node with its child collapsed
rootEncoding == encode(hashShortNodeChildren(FALSE, root).collapsed)

\* C5: a TryUpdate of a key k that holds no value, with a non-empty value,
\* followed by TryDelete(k), leaves the trie with the Hash it had before
\* the TryUpdate
C5_DeleteUndoesInsert ==
  (last.op = "delete" /\ last.err = noErr /\ last.prev.any /\ last.prev.fresh)
    => HashOf(trie) = last.prev.before

\* C5 as stated, for any key k: a TryUpdate of k with a non-empty value
\* followed by TryDelete(k) leaves the trie with the Hash it had before the
\* TryUpdate
C5_AnyKey ==
  (last.op = "delete" /\ last.err = noErr /\ last.prev.any)
    => HashOf(trie) = last.prev.before

\* a key was added to a trie that holds other keys, and deleted again
C5_Witness ==
  /\ last.op = "delete"
  /\ last.err = noErr
  /\ last.prev.any
  /\ last.prev.fresh
  /\ root # nilNode

\* C6: whenever the trie holds no key the root is nil and Hash returns
\* emptyRoot
C6_EmptyRoot ==
  NoKeys =>
    /\ root = nilNode
    /\ Hash(trie).hash = emptyRoot
    /\ Hash(trie).err = noErr

\* the only key of a trie that was not loaded was deleted
C6_Witness ==
  /\ NoKeys
  /\ last.op = "delete"
  /\ last.present
  /\ last.rootWas = "hash"

C9_EmptyValueDeletes ==
  [][\A k \in Keys :
       (Called("update", k) /\ last'.val = << >>) =>
         /\ trieAfter = TryDelete(trie, k).t
         /\ last'.err = TryDelete(trie, k).err
         /\ GetOf(trieAfter, k) = << >>]_vars

\* a key that held a value was updated with an empty value, and other keys
\* remain
C9_Witness ==
  /\ last.op = "update"
  /\ last.val = << >>
  /\ last.present
  /\ root # nilNode

\* r is the result of hashRoot and h the result of Hash on the same trie
rootForced(r, h) ==
  /\ r.hashed.t = "hash"
  /\ h.err = noErr
  /\ h.hash = r.hashed.h

\* C10: Hash of a trie with keys returns the hash of the root node, a hash
\* node, with no panic, whatever the size of the root's encoding
C10_RootHashForced == root # nilNode => rootForced(hashRoot(trie), Hash(trie))

\* Hash was called on a trie whose root is a short node with an encoding of
\* less than 32 bytes
C10_Witness ==
  /\ last.op = "hash"
  /\ last.err = noErr
  /\ root.t = "short"
  /\ Len(rootEncoding.bytes) < 32

(***************************************************************************)
(* The hasher's rule for embedding a node in its parent.                   *)
(***************************************************************************)
\* the collapsed copy the hasher makes of a short or full node
collapsedOf(n) ==
  IF n.t = "short" THEN hashShortNodeChildren(FALSE, n).collapsed
  ELSE hashFullNodeChildren(FALSE, n, n, 0).collapsed

\* hash(n, false) returns the collapsed node and clears flags.hash when the
\* encoding of the collapsed node is shorter than 32 bytes, and returns the
\* hash of the encoding and stores it in flags.hash otherwise
EmbedRule(n) ==
  LET r == hash(FALSE, n, FALSE)
      enc == encode(collapsedOf(n))
  IN IF Len(enc.bytes) < 32
     THEN r.hashed = collapsedOf(n) /\ r.cached.flags.hash = nilNode
     ELSE r.hashed = hashNode(Keccak256(enc)) /\ r.cached.flags.hash = r.hashed

isBranch(n) == n.t \in {"short", "full"}

\* EmbedRule for every node the hasher hashes with force = false: the short
\* and full nodes below n that are in memory
RECURSIVE EmbedRuleBelow(_)
EmbedRuleBelow(n) ==
  CASE n.t = "short" ->
         /\ isBranch(n.Val) => EmbedRule(n.Val)
         /\ EmbedRuleBelow(n.Val)
    [] n.t = "full" ->
         \A i \in 0..15 :
           /\ isBranch(Child(n, i)) => EmbedRule(Child(n, i))
           /\ EmbedRuleBelow(Child(n, i))
    [] OTHER -> TRUE

\* C11: every short or full node hashed with force = false is returned
\* itself, with flags.hash cleared, when its collapsed encoding is shorter
\* than 32 bytes, and is returned as the hash of that encoding, stored in
\* the cached node's flags.hash, otherwise
C11_EmbedRule == EmbedRuleBelow(root)

\* Hash was called on a trie whose root full node has a child that is
\* embedded and a child that is held by hash
C11_Witness ==
  /\ last.op = "hash"
  /\ root.t = "full"
  /\ \E i \in 0..15 :
       /\ Child(root, i).t = "short"
       /\ Child(root, i).flags.hash = nilNode
       /\ Len(encode(collapsedOf(Child(root, i))).bytes) < 32
  /\ \E j \in 0..15 :
       /\ Child(root, j).t = "short"
       /\ Child(root, j).flags.hash # nilNode
       /\ Len(encode(collapsedOf(Child(root, j))).bytes) >= 32

(***************************************************************************)
(* Missing nodes.                                                          *)
(***************************************************************************)
\* the node the path of hex nibbles leads to from n, hash nodes on the way
\* loaded from the store d; nil when the path leads nowhere
RECURSIVE nodeAt(_, _, _)
nodeAt(d, n, path) ==
  IF path = << >> THEN n
  ELSE CASE n.t = "hash" -> nodeAt(d, dbNode(d, n.h), path)
         [] n.t = "short" ->
              IF Len(path) >= Len(n.Key) /\ SubSeq(path, 1, Len(n.Key)) = n.Key
              THEN nodeAt(d, n.Val, SubSeq(path, Len(n.Key) + 1, Len(path)))
              ELSE nilNode
         [] n.t = "full" -> nodeAt(d, Child(n, path[1]), Tail(path))
         [] OTHER -> nilNode

\* the step is a call of TryGet, TryUpdate or TryDelete that returns a
\* MissingNodeError
MissingReturned == nops' = nops + 1 /\ last'.err.kind = "missing"

\* C12: a MissingNodeError returned by TryGet, TryUpdate or TryDelete names
\* the trie's owner, a hash the store holds no node under, and the path
\* from the root to the hash node with that hash
C12_MissingNodePath ==
  [][MissingReturned =>
       /\ last'.err.Owner = owner
       /\ last'.err.NodeHash \notin DOMAIN db
       /\ nodeAt(db, root, last'.err.Path) = hashNode(last'.err.NodeHash)]_vars

(***************************************************************************)
(* New.                                                                    *)
(***************************************************************************)
\* the last call was New with a database and the root hash last.out.rootHash
OpenedOnStore == last.op = "new" /\ ~last.out.dbNil

EmptyRoots == {zeroHash, emptyRoot}

\* C13: New on a store returns a MissingNodeError and no trie when the root
\* is neither the zero hash nor emptyRoot and the store holds no node under
\* it, and an empty trie, without a read of the store, when the root is the
\* zero hash or emptyRoot
C13_NewMissingOrEmpty ==
  OpenedOnStore =>
    /\ (last.out.rootHash \notin EmptyRoots /\ ~last.out.held) =>
         /\ last.err = MissingNodeError(owner, last.out.rootHash, << >>)
         /\ last.out.nil
    /\ last.out.rootHash \in EmptyRoots =>
         /\ last.err = noErr
         /\ ~last.out.nil
         /\ root = nilNode
         /\ last.out.reads = 0

\* New was called with the root hash of a committed trie on a store that
\* holds other nodes of the trie but not the root
C13_Witness ==
  /\ OpenedOnStore
  /\ last.out.rootHash \notin EmptyRoots \cup {noHash}
  /\ ~last.out.held
  /\ last.err.kind = "missing"
  /\ DOMAIN db # {}

\* C14: a New that succeeds with a root hash other than the zero hash and
\* emptyRoot has read the root node from the store, once, and installed it
\* as the root with the root hash as its cached hash; what the root holds
\* by hash is left as hash nodes
C14_RootResolvedByNew ==
  (OpenedOnStore /\ last.err = noErr /\ last.out.rootHash \notin EmptyRoots) =>
    /\ last.out.reads = 1
    /\ isLoaded(root)
    /\ root.flags.hash = hashNode(last.out.rootHash)
    /\ root = dbNode(db, last.out.rootHash)
    /\ root.t = "full" =>
         \A i \in 0..15 :
           db[last.out.rootHash].Children[i + 1].t = "hash"
             => Child(root, i).t = "hash"

\* C14 as stated: a New that succeeds with a root hash other than the zero
\* hash and emptyRoot installs the root as a hash node and reads nothing
\* from the store
C14_LazyRoot ==
  (OpenedOnStore /\ last.err = noErr /\ last.out.rootHash \notin EmptyRoots) =>
    /\ root = hashNode(last.out.rootHash)
    /\ last.out.reads = 0

\* New opened a committed trie whose root is a full node with a child it
\* holds by hash
C14_Witness ==
  /\ OpenedOnStore
  /\ last.err = noErr
  /\ last.out.rootHash \notin EmptyRoots
  /\ root.t = "full"
  /\ \E i \in 0..15 : Child(root, i).t = "hash"

\* C15: New without a database returns an empty trie when the root is the
\* zero hash or emptyRoot, and panics when the root is another hash
C15_NoDatabaseNeeded ==
  (last.op = "new" /\ last.out.dbNil) =>
    IF last.out.rootHash \in EmptyRoots
    THEN last.err = noErr /\ ~last.out.nil
    ELSE last.err = panicErr

(***************************************************************************)
(* The key encodings.                                                      *)
(***************************************************************************)
\* C16: compactToHex gives back every hex key hexToCompact was applied to
C16_CompactRoundTrip == last.op = "compactToHex" => last.out = last.in

\* a key with an odd number of nibbles and the terminator made the round
\* trip
C16_Witness ==
  /\ last.op = "compactToHex"
  /\ Len(last.in) = MaxHexLen + 1
  /\ hasTerm(last.in)
  /\ last.out = last.in

\* C17: for every hex key of at least one element hexToCompactInPlace
\* returns a length sz such that the first sz bytes of the buffer are
\* hexToCompact of the key
C17_InPlaceSame ==
  (last.op = "hexToCompactInPlace" /\ last.in # << >>) =>
    /\ ~last.out.panic
    /\ SubSeq(last.out.hex, 1, last.out.sz) = hexToCompact(last.in)

\* C17 as stated, the empty key included
C17_InPlaceSameAnyKey ==
  last.op = "hexToCompactInPlace" =>
    /\ ~last.out.panic
    /\ SubSeq(last.out.hex, 1, last.out.sz) = hexToCompact(last.in)

\* hexToCompactInPlace was applied to a key of two nibbles and the
\* terminator: the buffer of three bytes holds the two bytes of the compact
\* key
C17_Witness ==
  /\ last.op = "hexToCompactInPlace"
  /\ Len(last.in) = 3
  /\ hasTerm(last.in)
  /\ ~last.out.panic
  /\ last.out.sz = 2


(***************************************************************************)
(* The RLP writers.                                                        *)
(***************************************************************************)
\* the unsigned integer the bytes bs denote in big endian order, as its
\* eight bytes
padded(bs) ==
  [j \in 1..8 |-> IF j <= 8 - Len(bs) THEN 0 ELSE bs[j - (8 - Len(bs))]]

\* the size is one of 0 .. 55
lessThan56(size) == (\A j \in 1..7 : size[j] = 0) /\ size[8] < 56

\* C18: for a size below 56 puthead writes the one byte smalltag + size; for
\* a larger size it writes largetag + n and then the size in n bytes, big
\* endian, the first of them not zero, where n = intsize(size) lies in
\* 1 .. 8; headsize(size) is the number of bytes puthead writes
C18_PutHead ==
  last.op = "puthead" =>
    /\ IF lessThan56(last.in.size)
       THEN last.out.head = <<last.in.tags.smalltag + last.in.size[8]>>
       ELSE /\ last.out.intsize \in 1..8
            /\ Len(last.out.head) = last.out.intsize + 1
            /\ last.out.head[1] = last.in.tags.largetag + last.out.intsize
            /\ last.out.head[2] # 0
            /\ padded(SubSeq(last.out.head, 2, Len(last.out.head))) = last.in.size
    /\ last.out.headsize = Len(last.out.head)

\* puthead wrote the header of a list whose size needs all eight bytes
C18_Witness ==
  /\ last.op = "puthead"
  /\ last.in.size[1] = 255
  /\ last.in.tags.largetag = 247
  /\ last.out.head = <<255>> \o last.in.size
  /\ last.out.headsize = 9

\* the header of a string of the length l, for the lengths below 65536
lengthHeader(l) ==
  IF l <= 55 THEN <<128 + l>>
  ELSE IF l <= 255 THEN <<184, l>>
  ELSE <<185, l \div 256, l % 256>>

\* C19: a string or byte array of the one byte b is encoded as b alone when
\* b <= 0x7f and as 0x81 b when b >= 0x80; every other string is encoded as
\* its length header followed by its bytes, and "dog" as 83 64 6f 67
C19_StringEncoding ==
  last.op \in {"writeString", "makeByteArrayWriter"} =>
    /\ (Len(last.in.s) = 1 /\ last.in.s[1] <= 127) => last.out = <<last.in.s[1]>>
    /\ (Len(last.in.s) = 1 /\ last.in.s[1] >= 128) => last.out = <<129, last.in.s[1]>>
    /\ Len(last.in.s) # 1 => last.out = lengthHeader(Len(last.in.s)) \o last.in.s
    /\ last.in.s = dog => last.out = <<131, 100, 111, 103>>
    /\ (Len(last.out) = 1 /\ last.in.s # << >>) =>
         (Len(last.in.s) = 1 /\ last.in.s[1] <= 127)

\* writeString encoded "dog"
C19_Witness ==
  /\ last.op = "writeString"
  /\ last.in.s = dog
  /\ last.out = <<131, 100, 111, 103>>

\* the number of fields the output list of a struct holds: up to and
\* including the last optional field that is not zero, and the fields that
\* are not optional when every optional field is zero
fieldsWritten(fields, val) ==
  LET nonZero == {i \in 1..Len(fields) : fields[i].optional /\ val[i] # << >>}
  IN IF nonZero = {} THEN Cardinality({i \in 1..Len(fields) : ~fields[i].optional})
     ELSE CHOOSE i \in nonZero : \A j \in nonZero : j <= i

\* the struct type has an optional field
hasOptional(fields) == \E i \in 1..Len(fields) : fields[i].optional

\* C20: the output list of a struct with optional fields holds exactly the
\* fields up to and including the last optional field that is not zero (the
\* fields that are not optional when there is none), each as its own
\* encoding: the empty string as 0x80, the string of the byte i as i
C20_OptionalFields ==
  (last.op = "makeStructWriter" /\ hasOptional(last.in.fields)) =>
    /\ Len(last.out) = 1 + fieldsWritten(last.in.fields, last.in.val)
    /\ last.out[1] = 192 + fieldsWritten(last.in.fields, last.in.val)
    /\ \A i \in 1..(Len(last.out) - 1) :
         last.out[i + 1] = IF last.in.val[i] = << >> THEN 128 ELSE i

\* a struct of one required and three optional fields was encoded, the
\* first and the last optional field zero, the second not: the list holds
\* the required field, the zero optional field and the non-zero one
C20_Witness ==
  /\ last.op = "makeStructWriter"
  /\ Len(last.in.fields) = 4
  /\ ~last.in.fields[1].optional
  /\ last.in.fields[2].optional
  /\ last.in.val = << <<1>>, << >>, <<3>>, << >> >>
  /\ last.out = <<195, 1, 128, 3>>


(***************************************************************************)
(* Pointers and encoders.                                                  *)
(***************************************************************************)
\* the kind of empty value of a nil pointer: that of the tag, and without a
\* tag String for a pointee that is an unsigned integer, a string, a boolean
\* or a byte array or slice, List for a struct and every other slice or
\* array
nilKindOf(typ, ts) ==
  IF ts.NilOK THEN ts.NilKind
  ELSE IF \/ typ.kind \in {"Uint", "Uint8", "String", "Bool"}
          \/ (typ.kind \in {"Slice", "Array"} /\ typ.elem.kind = "Uint8"
                /\ typ.elem.encoder = "none")
       THEN "String"
       ELSE "List"

\* the writer was applied to a nil pointer
NilPointerWritten ==
  last.op = "makeWriter" /\ last.in.typ.kind = "Ptr" /\ last.in.val.nil

\* a nil pointer to a type other than big.Int is encoded as one byte, 0x80
\* when its nil kind is String and 0xC0 when it is List, and no writer but
\* that of the pointer runs; a nil *big.Int is encoded as 0x80 by
\* writeBigIntPtr
NilPointerExceptBigInt ==
  NilPointerWritten =>
    /\ last.out.err = noErr
    /\ Len(last.out.writers) = 1
    /\ last.out.bytes =
         IF last.in.typ.elem = bigInt THEN <<128>>
         ELSE IF nilKindOf(last.in.typ.elem, last.in.ts) = "String" THEN <<128>>
         ELSE <<192>>

\* C21: a nil pointer is encoded as exactly one byte, 0x80 when its nil kind
\* is String and 0xC0 when it is List, and the writer of the pointee does
\* not run
C21_NilPointer ==
  NilPointerWritten =>
    /\ last.out.err = noErr
    /\ Len(last.out.writers) = 1
    /\ last.out.bytes =
         IF nilKindOf(last.in.typ.elem, last.in.ts) = "String" THEN <<128>> ELSE <<192>>

\* a nil *MyCoolType was encoded to C0 and EncodeRLP did not run
NilMyCoolTypeWritten ==
  /\ NilPointerWritten
  /\ last.in.typ.elem = MyCoolType
  /\ last.in.ts = noTags
  /\ last.out.bytes = <<192>>
  /\ last.out.writers = <<"ptr">>


\* the writer was applied to a non-nil pointer to a type whose pointer type
\* implements Encoder
EncoderPointerWritten ==
  /\ last.op = "makeWriter"
  /\ last.in.typ.kind = "Ptr"
  /\ ~last.in.val.nil
  /\ last.in.typ.elem.encoder # "none"

\* the encoding of a non-nil pointer to an encoder type is what EncodeRLP
\* writes, the list of a and b without Name
EncoderOutputWritten ==
  EncoderPointerWritten =>
    /\ last.out.err = noErr
    /\ "EncodeRLP" \in {last.out.writers[i] : i \in 1..Len(last.out.writers)}
    /\ last.out.bytes = <<194, last.in.val.elem.a, last.in.val.elem.b>>

\* C22: the encoding of a non-nil pointer to a type whose pointer type
\* implements Encoder is what EncodeRLP writes, for MyCoolType the list of a
\* and b without Name, and for the value ExampleEncoder constructs the bytes
\* C2 05 06 the example expects
C22_EncoderOutput ==
  EncoderPointerWritten =>
    /\ last.out.err = noErr
    /\ last.out.bytes = <<194, last.in.val.elem.a, last.in.val.elem.b>>
    /\ (last.in.typ.elem = MyCoolType /\ last.in.val.elem = exampleValue) =>
         last.out.bytes = <<194, 5, 6>>


(***************************************************************************)
(* Decoding nodes.                                                         *)
(***************************************************************************)
\* a child item that is a string of a length other than 0 and 32, or a list
\* that is no valid embedded node
badChild(c) ==
  IF c.k = "str" THEN Len(c.b) \notin {0, 32}
  ELSE Len(rlpEncode(c)) > 32 \/ decodeNode(nilNode, c).err # noErr

\* decodeNode was applied to a list of 17 items with such a child
BadFullNodeDecoded ==
  /\ last.op = "decodeNode"
  /\ last.in.item.k = "list"
  /\ Len(last.in.item.items) = 17
  /\ \E i \in 1..16 : badChild(last.in.item.items[i])

SetupCalled == last.op \in {"SetupGenesisBlock", "SetupGenesisBlockWithOverride"}

\* the block the table of SetupGenesisBlock names for a database without
\* genesis
tableBlock(genesis) ==
  IF genesis.nil THEN ToBlock(DefaultGenesisBlock) ELSE ToBlock(genesis)

noGenesis(d) == d.canonical = zeroHash

genesisWithState(d) ==
  /\ d.canonical # zeroHash
  /\ \E b \in d.blocks : b.hash = d.canonical /\ b.root \in d.states

committed(d, b) == b \in d.blocks /\ d.canonical = b.hash

\* C24 as stated: without a canonical hash for block 0 the block of the
\* table is committed and its hash returned; with a genesis whose state is
\* present no block is written and the stored hash is returned
C24_AsStated ==
  SetupCalled =>
    /\ noGenesis(last.in.db) =>
         /\ committed(last.out.db, tableBlock(last.in.genesis))
         /\ last.out.hash = tableBlock(last.in.genesis).hash
    /\ genesisWithState(last.in.db) =>
         /\ last.out.db.blocks = last.in.db.blocks
         /\ last.out.hash = last.in.db.canonical

\* C24: the table holds for the calls that return no error.  Without a
\* canonical hash for block 0 such a call commits the main-net default
\* genesis if genesis is nil and the supplied genesis otherwise and returns
\* its hash, and a call that returns an error writes no block and returns
\* the zero hash.  With a genesis whose state is present no block is
\* written and the canonical hash is kept on every return, and the stored
\* hash is returned when there is no error.
C24_GenesisChoice ==
  SetupCalled =>
    /\ noGenesis(last.in.db) /\ last.out.err = errNil =>
         /\ committed(last.out.db, tableBlock(last.in.genesis))
         /\ last.out.hash = tableBlock(last.in.genesis).hash
    /\ noGenesis(last.in.db) /\ last.out.err # errNil =>
         /\ last.out.db.blocks = last.in.db.blocks
         /\ last.out.db.canonical = zeroHash
         /\ last.out.hash = zeroHash
    /\ genesisWithState(last.in.db) =>
         /\ last.out.db.blocks = last.in.db.blocks
         /\ last.out.db.canonical = last.in.db.canonical
         /\ last.out.err = errNil => last.out.hash = last.in.db.canonical

C24_Witness ==
  /\ SetupCalled
  /\ noGenesis(last.in.db)
  /\ last.in.genesis.nil
  /\ last.out.err = errNil
  /\ last.out.hash = MainnetGenesisHash
  /\ committed(last.out.db, ToBlock(DefaultGenesisBlock))

\* a genesis is supplied whose hash differs from the stored one
mismatch ==
  /\ SetupCalled
  /\ last.in.db.canonical # zeroHash
  /\ ~last.in.genesis.nil
  /\ ToBlock(last.in.genesis).hash # last.in.db.canonical

mismatchReturned ==
  last.out.err = [kind |-> "GenesisMismatchError",
                  Stored |-> last.in.db.canonical,
                  New |-> ToBlock(last.in.genesis).hash]

nothingWritten ==
  /\ last.out.db.blocks = last.in.db.blocks
  /\ last.out.db.configs = last.in.db.configs

\* C25 as stated: a supplied genesis whose hash differs from the stored one
\* gets a GenesisMismatchError with the two hashes, and neither a block nor
\* a chain config is written
C25_AsStated == mismatch => mismatchReturned /\ nothingWritten

\* C25: a supplied genesis with a Config whose hash differs from the stored
\* one gets a GenesisMismatchError with the stored and the new hash; one
\* without a Config gets errGenesisNoConfig; in both cases neither a block
\* nor a chain config is written
C25_GenesisMismatch ==
  mismatch =>
    /\ last.in.genesis.Config # nilConfig => mismatchReturned
    /\ last.in.genesis.Config = nilConfig => last.out.err = errGenesisNoConfig
    /\ nothingWritten

C25_Witness ==
  /\ mismatch
  /\ last.in.genesis.Config # nilConfig
  /\ mismatchReturned
  /\ last.out.hash = ToBlock(last.in.genesis).hash
  /\ last.out.db = last.in.db

\* C26: the chain config returned by SetupGenesisBlock and
\* SetupGenesisBlockWithOverride is not nil, whether or not an error is
\* returned
C26_ConfigNotNil == SetupCalled => last.out.config # nilConfig

C26_Witness ==
  /\ SetupCalled
  /\ last.out.err # errNil
  /\ last.out.err.kind = "fork order"
  /\ last.out.config = unorderedConfig


(***************************************************************************)
(* Parallel hashing                                                        *)
(***************************************************************************)
hashReturned == pc.main = "returned"

\* C27: whatever the interleaving of the goroutines, hashing a full node
\* with parallel = true returns the hashed node and the cached tree that
\* sequential hashing returns, and returns only when all 16 goroutines are
\* done
C27_ParallelDeterministic ==
  hashReturned =>
    /\ last.out = hash(FALSE, root, TRUE)
    /\ \A i \in 0..15 : pc.w[i].at = "done"

C27_Witness ==
  /\ hashReturned
  /\ last.out.hashed.t = "hash"
  /\ \E i, j \in 0..(Workers - 1) :
       /\ i # j
       /\ Child(root, i) = largeLeaf /\ Child(root, j) = largeLeaf
       /\ Child(last.out.cached, i).flags.hash # nilNode
       /\ Child(last.out.cached, j).flags.hash # nilNode

onNode(a) == "obj" \in DOMAIN a.loc

\* the goroutine of child i writes only Children[i] of the two copies
ownSlots ==
  \A a \in mem.writes :
    onNode(a) => a.loc.i = a.g /\ a.loc.obj \in {"collapsed", "cached"} \ {"n"}

\* a hasher in use is used by one goroutine and is not in the pool
ownHasher ==
  \A i \in 0..15 :
    pc.w[i].h # noHasher =>
      /\ pc.w[i].h # mainHasher
      /\ pc.w[i].h \notin mem.pool
      /\ \A j \in 0..15 : j # i => pc.w[j].h # pc.w[i].h

\* the accesses a and b are to one location, by two goroutines
conflict(a, b) == a.loc = b.loc /\ a.g # b.g

\* a goroutine reads and writes only the child of its index, in any node:
\* no child is written by two goroutines or written by one and read by
\* another
noNodeConflict == \A a \in mem.writes \cup mem.reads : onNode(a) => a.loc.i = a.g

inputUnwritten == "n" \in DOMAIN mem.obj => mem.obj["n"] = root

\* C28 as stated: each goroutine writes only its own two children and has a
\* hasher of its own while it uses it, no location at all is written by two
\* goroutines or written by one and read by another, and the input is not
\* written
C28_AsStated ==
  pc.main \notin {"hashRoot", "copy"} =>
    /\ ownSlots /\ ownHasher /\ inputUnwritten
    /\ \A a \in mem.writes : \A b \in mem.writes \cup mem.reads :
         a.g < Workers /\ b.g < Workers => ~conflict(a, b)

\* C28: the goroutine of child i writes only collapsed.Children[i] and
\* cached.Children[i]; no child of a node is written by two goroutines or
\* written by one and read by another; the input node is never written; and
\* a hasher is used by one goroutine at a time and is out of the pool
\* meanwhile (a hasher returned to the pool may be taken, and written, by
\* another goroutine before wg.Wait returns)
C28_DisjointWrites ==
  pc.main \notin {"hashRoot", "copy"} => ownSlots /\ ownHasher /\ noNodeConflict /\ inputUnwritten

C28_Witness ==
  \E i, j \in 0..(Workers - 1) :
    /\ i # j
    /\ pc.w[i].at = "child" /\ pc.w[j].at = "child"
    /\ toEncode(Child(root, i)) /\ toEncode(Child(root, j))
    /\ mem.hashers[pc.w[i].h] # emptyBuffer
    /\ mem.hashers[pc.w[j].h] # emptyBuffer


(***************************************************************************)
(* The type cache                                                          *)
(***************************************************************************)
\* a map that was stored in cur holds what it held then
snapshotsKept ==
  \A id \in 1..Len(mem.maps) : mem.stored[id].is => mem.maps[id] = mem.stored[id].keys

\* C29: a map stored as the current snapshot is not changed afterwards (the
\* entries are put into c.next, which is a map of its own), c.next is
\* non-nil only while c.mu is held, and what info finds in the snapshot
\* without the lock is a typeinfo whose generate has returned
C29_SnapshotImmutable ==
  /\ snapshotsKept
  /\ mem.next # nilMap => mem.mu # unlocked
  /\ \A key \in DOMAIN Load(mem) : mem.infos[key].done
  /\ \A g \in 1..Goroutines : pc[g].at = "returned" => pc[g].out.done

C29_Witness ==
  \E g, h \in 1..Goroutines :
    /\ pc[g].at = "returned" /\ pc[g].out.done
    /\ pc[h].at = "generating"
    /\ mem.next # nilMap /\ mem.next # mem.cur
    /\ DOMAIN Load(mem) # {}
    /\ \E key \in DOMAIN mem.maps[mem.next] : ~mem.infos[key].done

\* the dummy of a type is in c.next while info.generate runs for the type
dummyFirst(g) ==
  \A k \in 1..Len(pc[g].stack) :
    pc[g].stack[k].at = "generate" => pc[g].stack[k].key \in DOMAIN mem.maps[mem.next]

\* C30: every call of info returns, also for a struct with a field that is
\* a pointer to or a slice of itself: the dummy is in c.next before
\* info.generate looks up the element types, no typeinfo is made twice for
\* a type, generation is never given up for its depth, and a goroutine that
\* holds c.mu does not lock it again
C30_GenerationTerminates ==
  /\ [](\A g \in 1..Goroutines :
          /\ dummyFirst(g)
          /\ Len(pc[g].stack) < MaxDepth
          /\ pc[g].at = "generate" => mem.mu # g)
  /\ [](\A key \in Types : mem.infos[key].made <= 1)
  /\ \A g \in 1..Goroutines : (pc[g].at = "info") ~> (pc[g].at = "returned")

C30_Witness ==
  \E g \in 1..Goroutines :
    /\ pc[g].at = "returned"
    /\ pc[g].typ \in {"T", "S"}
    /\ pc[g].hit
    /\ pc[g].out.done


\* the calls of info that have returned, for one type, returned one typeinfo,
\* the one the current snapshot holds for the type
sameReturned ==
  \A g \in 1..Goroutines :
    pc[g].at = "returned" =>
      /\ pc[g].typ \in DOMAIN Load(mem)
      /\ pc[g].out.made = Load(mem)[pc[g].typ]
      /\ \A h \in 1..Goroutines :
           pc[h].at = "returned" /\ pc[h].typ = pc[g].typ => pc[h].out = pc[g].out

\* what the current snapshot holds it holds after the step
entriesKept ==
  \A key \in DOMAIN Load(mem) :
    key \in DOMAIN Load(mem') /\ Load(mem')[key] = Load(mem)[key]

\* C31: whatever the interleaving of the calls of info on one type cache, at
\* most one typeinfo is made (and generated) for a key, the calls for one
\* type return the same typeinfo, and an entry of the current snapshot is in
\* every later snapshot with the same typeinfo
C31_GenerateOnce ==
  /\ [](\A key \in Types : mem.infos[key].made <= 1)
  /\ []sameReturned
  /\ [][entriesKept]_vars

C31_Witness ==
  /\ \A g \in 1..Goroutines :
       pc[g].at = "returned" /\ pc[g].typ = "T" /\ pc[g].out.made = 1
  /\ Len(mem.maps) >= 3
  /\ mem.infos["T"].made = 1


(***************************************************************************)
(* The counter of unhashed operations.  A caller updates and deletes two   *)
(* keys of a new trie and calls Hash, until unhashed is above the          *)
(* threshold of parallel hashing.  mem counts the calls of TryUpdate and TryDelete      *)
(* since the last call of Hash (mem.since) and since the last call of Hash *)
(* on a trie that was not empty (mem.sinceHashed); last holds the last     *)
(* call and, for Hash, whether its hasher was a parallel one and what the  *)
(* counts were.                                                            *)
(***************************************************************************)
\* the caller stops updating when unhashed has reached MaxUnhashed
MaxUnhashed == 102

\* keys that differ in their first nibble: the root that holds both is a
\* full node
CountKeys == {<<17>>, <<33>>}

InitCount ==
  /\ root = nilNode
  /\ unhashed = 0
  /\ db = [h \in {} |-> nilNode]
  /\ model = [k \in Keys |-> << >>]
  /\ nops = 0
  /\ last = [op |-> "new", parallel |-> FALSE, enough |-> FALSE]
  /\ mem = [since |-> 0, sinceHashed |-> 0]
  /\ pc = << >>

\* r is the result of TryUpdate or TryDelete
Counted(op, r) ==
  /\ unhashed < MaxUnhashed
  /\ root' = r.t.root
  /\ unhashed' = r.t.unhashed
  /\ last' = [op |-> op, parallel |-> FALSE, enough |-> FALSE]
  /\ mem' = [since |-> mem.since + 1, sinceHashed |-> mem.sinceHashed + 1]
  /\ UNCHANGED <<db, model, nops, pc>>

CountUpdateStep == \E k \in CountKeys : Counted("update", TryUpdate(trie, k, SmallVal))

CountDeleteStep == \E k \in CountKeys : Counted("delete", TryDelete(trie, k))

\* r is the result of Hash(); enough: there were at least 100 calls of
\* TryUpdate and TryDelete since the Hash before
CountedHash(r, parallel) ==
  /\ root' = r.t.root
  /\ unhashed' = r.t.unhashed
  /\ last' = [op |-> "hash", parallel |-> parallel,
              enough |-> mem.since >= ParallelThreshold]
  /\ mem' = [since |-> 0,
             sinceHashed |-> IF root = nilNode THEN mem.sinceHashed ELSE 0]
  /\ UNCHANGED <<db, model, nops, pc>>

CountHashStep == CountedHash(Hash(trie), parallelHasher(trie))

NextCount == CountUpdateStep \/ CountDeleteStep \/ CountHashStep

SpecCount == InitCount /\ [][NextCount]_vars

\* C32 as stated: unhashed is the number of calls of TryUpdate and TryDelete
\* since the last call of Hash, it is 0 when Hash has returned, and Hash
\* hashes in parallel iff there were at least 100 such calls since the Hash
\* before it
C32_AsStated ==
  /\ unhashed = mem.since
  /\ last.op = "hash" => unhashed = 0 /\ (last.parallel <=> last.enough)

\* C32: unhashed is the number of calls of TryUpdate and TryDelete since the
\* last call of Hash on a trie that was not empty (a Hash of the empty trie
\* leaves the counter as it is); each call adds one; unhashed is 0 when a
\* Hash of a non-empty trie has returned; and Hash hashes in parallel iff
\* the trie is not empty and that number is at least 100
C32_UnhashedCount ==
  /\ [](unhashed = mem.sinceHashed)
  /\ [][/\ last'.op \in {"update", "delete"} => unhashed' = unhashed + 1
        /\ last'.op = "hash" =>
             /\ unhashed' = IF root = nilNode THEN unhashed ELSE 0
             /\ last'.parallel <=>
                  root # nilNode /\ mem.sinceHashed >= ParallelThreshold]_vars

\* a parallel Hash of a full node, after fewer than 100 calls since the
\* Hash before it
C32_Witness ==
  /\ last.op = "hash"
  /\ last.parallel
  /\ ~last.enough
  /\ root.t = "full"
  /\ unhashed = 0


(***************************************************************************)
(* The hasher pool                                                         *)
(***************************************************************************)
\* the goroutines that hold the hasher id: hashRoot between newHasher and
\* its return, the goroutine of a child between newHasher and
\* returnHasherToPool
holders(id) ==
  Cardinality({i \in 0..15 : pc.w[i].h = id})
    + (IF id = mainHasher /\ pc.main \in {"copy", "go", "wait"} THEN 1 ELSE 0)

\* a hasher was returned as often as it was taken, but for the goroutine
\* that holds it; it is in the pool iff no goroutine holds it
takenAndReturned ==
  \A id \in DOMAIN mem.hashers :
    /\ mem.held[id] = holders(id)
    /\ mem.held[id] \in {0, 1}
    /\ id \in mem.pool <=> mem.held[id] = 0

\* a step that writes the buffer of a hasher, or a field of it, is a step of
\* the goroutine that holds the hasher
usedWhileHeld ==
  /\ \A id \in DOMAIN mem.hashers :
       mem'.hashers[id] # mem.hashers[id] => \E i \in 0..15 : pc.w[i].h = id
  /\ \A a \in mem'.writes \ mem.writes :
       ~onNode(a) /\ a.g < Workers => pc'.w[a.g].h = a.loc.hasher

\* C33: a hasher that hashRoot or the goroutine of a child took from the
\* pool is returned once before the goroutine ends (when hashRoot has
\* returned every hasher is in the pool), and a goroutine uses a hasher only
\* while it holds it
C33_HasherReturned ==
  /\ [](takenAndReturned /\ (hashReturned => mem.pool = DOMAIN mem.hashers))
  /\ [](\A i \in 0..15 : pc.w[i].at \in {"returned", "done"} => pc.w[i].h = noHasher)
  /\ [][usedWhileHeld]_vars

\* hashRoot has returned, with a hasher that came out of the pool and one
\* that two goroutines used one after the other
C33_Witness ==
  /\ hashReturned
  /\ mainHasher \in mem.pool
  /\ Cardinality(DOMAIN mem.hashers) = 2
  /\ \E a, b \in mem.writes :
       /\ ~onNode(a) /\ ~onNode(b)
       /\ a.loc = b.loc /\ a.g < b.g /\ b.g < Workers


(***************************************************************************)
(* Commit with a leaf callback.  The committer's Commit sends the leaves   *)
(* it visits on h.leafCh and commitLoop receives them until the channel is *)
(* closed and empty, calling onleaf for each: as the comment in Commit     *)
(* says, commitLoop only reads from the channel and the commit operation   *)
(* is its sole writer.  mem holds the channel (its buffer, how many times  *)
(* it was closed, whether a value was sent on it when it was closed), the  *)
(* counter of the WaitGroup, the leaves the committer has still to send    *)
(* and the leaves onleaf was called with.  pc holds the position of Commit *)
(* (pc.main) and of the goroutine of commitLoop (pc.loop).  last.in holds  *)
(* whether there is a callback, the dirty leaves of the trie and whether   *)
(* the committer fails.                                                    *)
(***************************************************************************)
MaxLeaves == 3

\* the capacity of h.leafCh
leafChanSize == 2

\* make(chan *leaf, leafChanSize)
makeChan == [made |-> TRUE, buf |-> << >>, closed |-> 0, sentClosed |-> FALSE]

\* a channel that is nil
nilChan == [made |-> FALSE, buf |-> << >>, closed |-> 0, sentClosed |-> FALSE]

\* h.leafCh <- leaf can proceed: the buffer has room, or the channel is
\* closed (and the send panics)
canSend(ch) == ch.made /\ (Len(ch.buf) < leafChanSize \/ ch.closed > 0)

\* h.leafCh <- leaf
send(ch, leaf) ==
  IF ch.closed > 0 THEN [ch EXCEPT !.sentClosed = TRUE]
  ELSE [ch EXCEPT !.buf = Append(@, leaf)]

\* close(h.leafCh)
close(ch) == [ch EXCEPT !.closed = @ + 1]

\* wg.Add that adds nothing
AddNothing(wg, n) == wg

\* wg.Add(n)
Add(wg, n) == wg + n

\* wg.Done()
Done(wg) == wg - 1

InitLeaf ==
  /\ root = nilNode
  /\ unhashed = 0
  /\ db = [h \in {} |-> nilNode]
  /\ model = [k \in Keys |-> << >>]
  /\ nops = 0
  /\ \E onleaf \in BOOLEAN, leaves \in 0..MaxLeaves, fails \in BOOLEAN :
       /\ last = [op |-> "Commit",
                  in |-> [onleaf |-> onleaf, leaves |-> leaves, fails |-> fails],
                  out |-> << >>]
       /\ mem = [ch |-> nilChan, wg |-> 0, toSend |-> [i \in 1..leaves |-> i],
                 called |-> << >>]
  /\ pc = [main |-> "dirty", loop |-> "none"]

Moved(m, p) ==
  /\ mem' = m
  /\ pc' = p
  /\ UNCHANGED <<root, unhashed, db, model, last, nops>>

\* if onleaf != nil: the channel is made, wg.Add(1), and the goroutine of
\* commitLoop is started
GoLoopStep ==
  /\ pc.main = "dirty"
  /\ IF last.in.onleaf
     THEN Moved([mem EXCEPT !.ch = makeChan, !.wg = Add(@, 1)],
                [main |-> "h.Commit", loop |-> "commitLoop"])
     ELSE Moved(mem, [pc EXCEPT !.main = "h.Commit"])

\* h.Commit visits a leaf: with a callback it is sent on h.leafCh
LeafStep ==
  /\ pc.main = "h.Commit"
  /\ mem.toSend # << >>
  /\ IF last.in.onleaf
     THEN /\ canSend(mem.ch)
          /\ Moved([mem EXCEPT !.ch = send(@, Head(mem.toSend)), !.toSend = Tail(@)],
                   pc)
     ELSE Moved([mem EXCEPT !.toSend = Tail(@)], pc)

\* h.Commit returns: when all leaves were visited, or before with an error
CommitReturnsStep ==
  /\ pc.main = "h.Commit"
  /\ \E err \in BOOLEAN :
       /\ err = last.in.fails
       /\ err \/ mem.toSend = << >>
       /\ mem' = mem
       /\ pc' = [pc EXCEPT !.main = "committed"]
       /\ last' = [last EXCEPT !.out = [err |-> err, returned |-> FALSE]]
       /\ UNCHANGED <<root, unhashed, db, model, nops>>

\* if onleaf != nil: close(h.leafCh)
CloseStep ==
  /\ pc.main = "committed"
  /\ IF last.in.onleaf
     THEN Moved([mem EXCEPT !.ch = close(@)], [pc EXCEPT !.main = "wg.Wait"])
     ELSE Moved(mem, [pc EXCEPT !.main = "waited"])

\* wg.Wait()
WaitLoopStep ==
  /\ pc.main = "wg.Wait"
  /\ Wait(mem.wg)
  /\ Moved(mem, [pc EXCEPT !.main = "waited"])

\* if err != nil { return ... }; t.root = newRoot; return
ReturnsStep ==
  /\ pc.main = "waited"
  /\ mem' = mem
  /\ pc' = [pc EXCEPT !.main = "returned"]
  /\ last' = [last EXCEPT !.out.returned = TRUE]
  /\ UNCHANGED <<root, unhashed, db, model, nops>>

\* commitLoop receives a leaf and calls onleaf
ReceiveStep ==
  /\ pc.loop = "commitLoop"
  /\ mem.ch.buf # << >>
  /\ Moved([mem EXCEPT !.ch.buf = Tail(@), !.called = Append(@, Head(mem.ch.buf))],
           pc)

\* commitLoop returns: the channel is closed and empty
LoopReturnsStep ==
  /\ pc.loop = "commitLoop"
  /\ mem.ch.buf = << >>
  /\ mem.ch.closed > 0
  /\ Moved(mem, [pc EXCEPT !.loop = "defer"])

\* the deferred wg.Done()
LoopDoneStep ==
  /\ pc.loop = "defer"
  /\ Moved([mem EXCEPT !.wg = Done(@)], [pc EXCEPT !.loop = "terminated"])

NextLeaf ==
  \/ GoLoopStep \/ LeafStep \/ CommitReturnsStep \/ CloseStep \/ WaitLoopStep
  \/ ReturnsStep \/ ReceiveStep \/ LoopReturnsStep \/ LoopDoneStep

SpecLeaf == InitLeaf /\ [][NextLeaf]_vars

\* C34: with a leaf callback the channel is closed once, after the
\* committer's Commit has returned, and nothing is sent on it when it is
\* closed; Commit has returned only when the goroutine of commitLoop has
\* terminated, with and without an error of the committer, and every leaf
\* that was sent has then been passed to onleaf; without a callback there is
\* no channel to close
C34_LeafChannel ==
  /\ mem.ch.closed <= 1
  /\ ~mem.ch.sentClosed
  /\ mem.wg \in {0, 1}
  /\ mem.ch.closed = 1 =>
       last.in.onleaf /\ pc.main \in {"wg.Wait", "waited", "returned"}
  /\ pc.main = "returned" =>
       IF last.in.onleaf
       THEN /\ pc.loop = "terminated"
            /\ mem.ch.closed = 1
            /\ mem.ch.buf = << >>
            /\ mem.called \o mem.toSend = [i \in 1..last.in.leaves |-> i]
       ELSE pc.loop = "none" /\ mem.ch = nilChan

\* Commit has returned the committer's error, after the goroutine of
\* commitLoop passed on the leaves that were sent before the error
C34_Witness ==
  /\ pc.main = "returned"
  /\ last.in.onleaf
  /\ last.out.err
  /\ Len(mem.called) = 2
  /\ mem.toSend # << >>
  /\ pc.loop = "terminated"


(***************************************************************************)
(* The shape of the nodes                                                  *)
(***************************************************************************)
\* the terminator is nowhere in the key but at its end
termOnlyLast(key) == \A i \in 1..(Len(key) - 1) : key[i] # 16

\* below n, in memory or in the store: the key of a short node is not empty
\* and holds the terminator at most as its last element, its child is a
\* value node iff the key ends with the terminator; the children 0..15 of a
\* full node are no value nodes and its child 16 is nil or a value node
RECURSIVE KeysWellFormed(_, _)
KeysWellFormed(d, n) ==
  CASE loaded(d, n).t = "short" ->
         /\ Len(loaded(d, n).Key) > 0
         /\ termOnlyLast(loaded(d, n).Key)
         /\ loaded(d, loaded(d, n).Val).t = "value" <=> hasTerm(loaded(d, n).Key)
         /\ KeysWellFormed(d, loaded(d, n).Val)
    [] loaded(d, n).t = "full" ->
         /\ \A i \in 0..15 :
              /\ loaded(d, Child(loaded(d, n), i)).t # "value"
              /\ KeysWellFormed(d, Child(loaded(d, n), i))
         /\ Child(loaded(d, n), 16).t \in {"nil", "value"}
    [] OTHER -> TRUE

\* C35: in every trie reached by TryUpdate and TryDelete (and TryGet, Hash
\* and Commit) with keys made by keybytesToHex, the keys of the short nodes
\* and the places of the value nodes are well formed, and the root is no
\* value node
C35_KeysWellFormed == root.t # "value" /\ KeysWellFormed(db, root)

\* a delete left a key and a key it is a prefix of: a full node with a
\* value in child 16, below a short node whose key the delete made longer
C35_Witness ==
  /\ last.op = "delete"
  /\ last.present
  /\ root.t = "short"
  /\ Len(root.Key) = 2
  /\ ~hasTerm(root.Key)
  /\ root.Val.t = "full"
  /\ Child(root.Val, 16).t = "value"


(***************************************************************************)
(* What delete returns on its way up                                       *)
(***************************************************************************)
\* the number of non-nil entries of a full node
entries(n) == Cardinality({i \in 0..16 : Child(n, i) # nilNode})

\* r is what delete returned for the child of a short node whose key the
\* key extends beyond: a changed child is not nil
childKept(r) == r.dirty /\ r.err = noErr => r.n # nilNode

\* r is what delete returned for the child key[1] of the full node n: when
\* the child is gone an entry is left
entryLeft(n, i, r) ==
  r.dirty /\ r.err = noErr /\ r.n = nilNode => entries(replaceChild(n, i, r.n)) >= 1

\* on the path of key below n, in memory and in the store, delete gets a
\* non-nil child back for every short node it passes and leaves no full
\* node without an entry
RECURSIVE DeleteKeepsNodes(_, _, _, _)
DeleteKeepsNodes(d, n, prefix, key) ==
  CASE loaded(d, n).t = "short" ->
         IF prefixLen(key, loaded(d, n).Key) < Len(loaded(d, n).Key)
            \/ prefixLen(key, loaded(d, n).Key) = Len(key)
         THEN TRUE
         ELSE /\ childKept(delete(d, loaded(d, n).Val,
                                  prefix \o loaded(d, n).Key,
                                  Slice(key, Len(loaded(d, n).Key), Len(key))))
              /\ DeleteKeepsNodes(d, loaded(d, n).Val, prefix \o loaded(d, n).Key,
                                  Slice(key, Len(loaded(d, n).Key), Len(key)))
    [] loaded(d, n).t = "full" ->
         /\ Len(key) > 0
         /\ entryLeft(loaded(d, n), key[1],
                      delete(d, Child(loaded(d, n), key[1]), prefix \o <<key[1]>>,
                             Slice(key, 1, Len(key))))
         /\ DeleteKeepsNodes(d, Child(loaded(d, n), key[1]), prefix \o <<key[1]>>,
                             Slice(key, 1, Len(key)))
    [] OTHER -> TRUE

\* no short node below n has a nil child and no full node is without an
\* entry
RECURSIVE NoNilChild(_, _)
NoNilChild(d, n) ==
  CASE loaded(d, n).t = "short" ->
         loaded(d, n).Val # nilNode /\ NoNilChild(d, loaded(d, n).Val)
    [] loaded(d, n).t = "full" ->
         /\ entries(loaded(d, n)) >= 1
         /\ \A i \in 0..16 : NoNilChild(d, Child(loaded(d, n), i))
    [] OTHER -> TRUE

\* the call did not index a key out of its range and did not find a node
\* that is no node
noPanic(r) == r.err # panicErr

\* C36: in every reachable trie and for every key, the delete below a short
\* node whose key the key extends beyond returns a non-nil child when it
\* reports a change, a full node that loses a child keeps an entry, no node
\* has a nil child in the place of its only one, and TryGet, TryUpdate and
\* TryDelete do not panic
C36_DeleteKeepsNodes ==
  /\ NoNilChild(db, root)
  /\ \A k \in Keys :
       /\ DeleteKeepsNodes(db, root, << >>, keybytesToHex(k))
       /\ noPanic(TryGet(trie, k))
       /\ noPanic(TryDelete(trie, k))
       /\ \A v \in Values : noPanic(TryUpdate(trie, k, v))

\* a delete of a key below the root's short node left the full node below
\* it with two entries
C36_Witness ==
  /\ last.op = "delete"
  /\ last.present
  /\ last.rootWas = "short"
  /\ root.t = "short"
  /\ root.Val.t = "full"
  /\ entries(root.Val) = 2


(***************************************************************************)
(* The content decides the root hash                                       *)
(***************************************************************************)
\* C37: whatever calls of TryUpdate and TryDelete (and TryGet, Hash and
\* Commit) led to it, with overwrites and deletions, a trie has the root
\* hash of the trie that is built from the empty one by one TryUpdate for
\* each key that holds a value, in the order of KeyOrder: two sequences of
\* calls that end with the same keys and values end with the same root hash
C37_ContentDecidesHash ==
  hashAnswer(Hash(trie))
    = [hash |-> HashOf(builtInOrder(emptyTrie, model, 1)), err |-> noErr]

\* a delete took a key out of a trie that still holds two keys, below a
\* short node for the nibbles they share
C37_Witness ==
  /\ last.op = "delete"
  /\ last.present
  /\ Cardinality({k \in Keys : model[k] # << >>}) = 2
  /\ root.t = "short"
  /\ root.Val.t = "full"


\* ---------------------------------------------------------------------
\* Cached hashes
\* ---------------------------------------------------------------------

\* n with the flags of every short and full node in memory replaced by fresh
\* ones (no cached hash, dirty): the content of n without anything cached
RECURSIVE fresh(_)
fresh(n) ==
  CASE n.t = "short" -> shortNode(n.Key, fresh(n.Val), newFlag)
    [] n.t = "full" ->
         [n EXCEPT !.flags = newFlag,
                   !.Children = [i \in 1..17 |-> fresh(n.Children[i])]]
    [] OTHER -> n

\* the hash of the encoding of the collapsed content of n, computed with
\* nothing cached
scratchHash(n) == hash(FALSE, fresh(n), TRUE).hashed

\* the node n carries no cached hash, or the hash s
cachedIs(n, s) == n.flags.hash # nilNode => n.flags.hash = s

\* every short or full node below n that carries a cached hash carries the
\* hash of its content
RECURSIVE CachedHashesRight(_)
CachedHashesRight(n) ==
  CASE n.t = "short" ->
         /\ isBranch(n.Val) => cachedIs(n.Val, scratchHash(n.Val))
         /\ CachedHashesRight(n.Val)
    [] n.t = "full" ->
         \A i \in 0..15 :
           /\ isBranch(Child(n, i)) => cachedIs(Child(n, i), scratchHash(Child(n, i)))
           /\ CachedHashesRight(Child(n, i))
    [] OTHER -> TRUE

\* the root carries no cached hash or the hash s of its content, and Hash()
\* returns s
rootRight(s) ==
  /\ isBranch(root) => cachedIs(root, s)
  /\ root # nilNode => HashOf(trie) = s.h

\* some short or full child of the full node n carries a cached hash
childCached(n) == \E i \in 0..15 : isLoaded(Child(n, i))

\* C38: in every reachable state every short or full node in memory whose
\* flags.hash is set has flags.hash equal to the Keccak-256 of the RLP
\* encoding of its collapsed content, and Hash() returns the hash computed
\* for the same content with no cached hash at all
C38_CachedHashesRight ==
  /\ CachedHashesRight(root)
  /\ rootRight(scratchHash(root))

\* an update or a delete has just replaced the root full node, which has
\* no cached hash, above a child that kept the hash cached by an earlier
\* Hash or Commit
C38_Witness ==
  /\ last.op \in {"update", "delete"}
  /\ root.t = "full"
  /\ root.flags.hash = nilNode
  /\ childCached(root)


\* ---------------------------------------------------------------------
\* Calls that fail
\* ---------------------------------------------------------------------

\* the step is a call of one of ops that returns a MissingNodeError
failedCall(ops) == MissingReturned /\ last'.op \in ops

\* the trie after the step
trieAfterStep == [root |-> root', unhashed |-> unhashed', db |-> db']

\* Hash() and TryGet of every key return after the step what they returned
\* before it
sameAnswers ==
  /\ hashAnswer(Hash(trieAfterStep)) = hashAnswer(Hash(trie))
  /\ \A k \in StoreKeys :
       getAnswer(TryGet(trieAfterStep, k)) = getAnswer(TryGet(trie, k))

\* C39: a TryUpdate, a TryDelete or a TryGet that returns a
\* MissingNodeError leaves the root of the trie as it was, so that Hash()
\* and TryGet of every key return what they returned before the call
C39_FailedCallKeepsRoot ==
  [][failedCall({"update", "delete", "get"}) => root' = root /\ sameAnswers]_vars

\* a TryDelete of a key that holds a value has returned a MissingNodeError:
\* the root full node is left with one child, which the store lacks
C39_Witness ==
  /\ last.op = "delete"
  /\ last.err.kind = "missing"
  /\ last.present
  /\ root.t = "full"

\* a TryUpdate below a root that is loaded has returned a MissingNodeError
C39_UpdateFailed ==
  /\ last.op = "update"
  /\ last.err.kind = "missing"
  /\ root.t \in {"short", "full"}

\* a TryGet has returned a MissingNodeError
C39_GetFailed == last.op = "get" /\ last.err.kind = "missing"


(***************************************************************************)
(* Tries that share nodes.  Short and full nodes are Go pointers: here a   *)
(* heap H is the sequence of the short and full nodes allocated so far,    *)
(* and a node is a reference: nil, a value node, a hash node, or the       *)
(* address of a short or full node, whose Val and Children are references. *)
(* Every operation of the trie is translated statement by statement, an    *)
(* assignment to a field of a node being a write to the heap.              *)
(***************************************************************************)
ptr(a) == [t |-> "ptr", a |-> a]

\* &shortNode{...}, &fullNode{...}: a new node
alloc(H, n) == [H |-> Append(H, n), r |-> ptr(Len(H) + 1)]

\* n.copy() that returns n itself
copyInPlace(H, r) == [H |-> H, r |-> r]

\* n.copy(): copy := *n; return &copy
copyNode(H, r) == alloc(H, H[r.a])

\* n.Val = v for the short node at r
setVal(H, r, v) == [H EXCEPT ![r.a].Val = v]

\* n.Children[i] = c for the full node at r
setChildAt(H, r, i, c) == [H EXCEPT ![r.a].Children[i + 1] = c]

\* n.flags = f for the node at r
setFlags(H, r, f) == [H EXCEPT ![r.a].flags = f]

\* the dynamic type of the node r
typeOf(H, r) == IF r.t = "ptr" THEN H[r.a].t ELSE r.t

\* the node r with everything below it, as a value
RECURSIVE deref(_, _)
deref(H, r) ==
  IF r.t # "ptr" THEN r
  ELSE IF H[r.a].t = "short"
  THEN [H[r.a] EXCEPT !.Val = deref(H, H[r.a].Val)]
  ELSE [H[r.a] EXCEPT !.Children = [i \in 1..17 |-> deref(H, H[r.a].Children[i])]]

\* the node n, given as a value, built on the heap: every short and full
\* node of it is a new node
RECURSIVE storeNode(_, _)
RECURSIVE storeChildren(_, _, _)
storeChildren(H, n, i) ==
  IF i > 17 THEN alloc(H, n)
  ELSE IF n.Children[i].t \in {"short", "full"}
  THEN storeChildren(storeNode(H, n.Children[i]).H,
                     [n EXCEPT !.Children[i] = ptr(Len(storeNode(H, n.Children[i]).H))],
                     i + 1)
  ELSE storeChildren(H, n, i + 1)

storeNode(H, n) ==
  CASE n.t = "short" ->
         IF n.Val.t \in {"short", "full"}
         THEN alloc(storeNode(H, n.Val).H,
                    [n EXCEPT !.Val = ptr(Len(storeNode(H, n.Val).H))])
         ELSE alloc(H, n)
    [] n.t = "full" -> storeChildren(H, n, 1)
    [] OTHER -> [H |-> H, r |-> n]

\* resolveHash on the heap: the node decoded from the store is new
resolveHashH(H, d, n, prefix) ==
  IF resolveHash(d, n, prefix).err # noErr
  THEN [H |-> H, r |-> nilNode, err |-> resolveHash(d, n, prefix).err]
  ELSE [H |-> storeNode(H, resolveHash(d, n, prefix).n).H,
        r |-> storeNode(H, resolveHash(d, n, prefix).n).r, err |-> noErr]

resolveH(H, d, n, prefix) ==
  IF n.t = "hash" THEN resolveHashH(H, d, n, prefix)
  ELSE [H |-> H, r |-> n, err |-> noErr]

\* the results of tryGet on a short or full node at r, after tryGet on its
\* child returned g: n = n.copy() and the assignment to the copy when a
\* hash node was resolved below
gotBelow(g, r, c, isShort, i) ==
  [H |-> IF g.err = noErr /\ g.didResolve
         THEN IF isShort THEN setVal(c.H, c.r, g.newnode)
              ELSE setChildAt(c.H, c.r, i, g.newnode)
         ELSE g.H,
   value |-> g.value,
   newnode |-> IF g.err = noErr /\ g.didResolve THEN c.r ELSE r,
   didResolve |-> g.didResolve, err |-> g.err]

\* tryGet on the heap
RECURSIVE tryGetH(_, _, _, _, _)
tryGetShort(g, r) == gotBelow(g, r, copyNode(g.H, r), TRUE, 0)

tryGetFull(g, r, i) == gotBelow(g, r, copyNode(g.H, r), FALSE, i)

tryGetHash(H, d, r, key, pos, c) ==
  IF c.err # noErr
  THEN [H |-> H, value |-> << >>, newnode |-> r, didResolve |-> TRUE,
        err |-> c.err]
  ELSE [tryGetH(c.H, d, c.r, key, pos) EXCEPT !.didResolve = TRUE]

tryGetH(H, d, r, key, pos) ==
  CASE typeOf(H, r) = "nil" ->
         [H |-> H, value |-> << >>, newnode |-> nilNode,
          didResolve |-> FALSE, err |-> noErr]
    [] typeOf(H, r) = "value" ->
         [H |-> H, value |-> r.v, newnode |-> r, didResolve |-> FALSE,
          err |-> noErr]
    [] typeOf(H, r) = "short" ->
         IF Len(key) - pos < Len(H[r.a].Key)
            \/ H[r.a].Key # Slice(key, pos, pos + Len(H[r.a].Key))
         THEN [H |-> H, value |-> << >>, newnode |-> r, didResolve |-> FALSE,
               err |-> noErr]
         ELSE tryGetShort(tryGetH(H, d, H[r.a].Val, key, pos + Len(H[r.a].Key)), r)
    [] typeOf(H, r) = "full" ->
         IF pos >= Len(key)
         THEN [H |-> H, value |-> << >>, newnode |-> r, didResolve |-> FALSE,
               err |-> panicErr]
         ELSE tryGetFull(tryGetH(H, d, Child(H[r.a], key[pos + 1]), key, pos + 1),
                         r, key[pos + 1])
    [] typeOf(H, r) = "hash" ->
         tryGetHash(H, d, r, key, pos, resolveHashH(H, d, r, Slice(key, 0, pos)))


\* what insert and delete return on the heap: the heap, whether the trie
\* changed, the node to put in place of the one passed, and the error
changedTo(a) == [H |-> a.H, dirty |-> TRUE, n |-> a.r, err |-> noErr]

unchangedAt(H, r, err) == [H |-> H, dirty |-> FALSE, n |-> r, err |-> err]

RECURSIVE insertH(_, _, _, _, _, _)

\* insert below a short node whose whole key matches: i is the result of
\* insert on n.Val
insertShortMatch(i, r) ==
  IF ~i.dirty \/ i.err # noErr THEN unchangedAt(i.H, r, i.err)
  ELSE changedTo(alloc(i.H, shortNode(i.H[r.a].Key, i.n, newFlag)))

\* the end of the branching: b2 is the result of the second insert, br the
\* new full node
branchEnd(b2, br, key, matchlen) ==
  IF b2.err # noErr THEN unchangedAt(b2.H, nilNode, b2.err)
  ELSE IF matchlen = 0
  THEN [H |-> setChildAt(b2.H, br, key[matchlen + 1], b2.n), dirty |-> TRUE,
        n |-> br, err |-> noErr]
  ELSE changedTo(alloc(setChildAt(b2.H, br, key[matchlen + 1], b2.n),
                       shortNode(Slice(key, 0, matchlen), br, newFlag)))

\* b1 is the result of the first insert, of the rest of n.Key with n.Val
branchSecond(b1, br, d, nKey, prefix, key, value, matchlen) ==
  IF b1.err # noErr THEN unchangedAt(b1.H, nilNode, b1.err)
  ELSE branchEnd(insertH(setChildAt(b1.H, br, nKey[matchlen + 1], b1.n), d,
                         nilNode, prefix \o Slice(key, 0, matchlen + 1),
                         Slice(key, matchlen + 1, Len(key)), value),
                 br, key, matchlen)

\* branch := &fullNode{flags: t.newFlag()} is the node at a.r
branchOut(a, d, n, prefix, key, value, matchlen) ==
  branchSecond(insertH(a.H, d, nilNode, prefix \o Slice(n.Key, 0, matchlen + 1),
                       Slice(n.Key, matchlen + 1, Len(n.Key)), n.Val),
               a.r, d, n.Key, prefix, key, value, matchlen)

insertShort(H, d, r, prefix, key, value, matchlen) ==
  IF matchlen = Len(H[r.a].Key)
  THEN insertShortMatch(insertH(H, d, H[r.a].Val,
                                prefix \o Slice(key, 0, matchlen),
                                Slice(key, matchlen, Len(key)), value), r)
  ELSE IF matchlen >= Len(key) THEN unchangedAt(H, nilNode, panicErr)
  ELSE branchOut(alloc(H, emptyFullNode(newFlag)), d, H[r.a], prefix, key,
                 value, matchlen)

\* n = n.copy(); n.flags = t.newFlag(); n.Children[i] = nn, c being the
\* result of n.copy()
replaceChildH(c, i, nn) ==
  [H |-> setChildAt(setFlags(c.H, c.r, newFlag), c.r, i, nn), dirty |-> TRUE,
   n |-> c.r, err |-> noErr]

\* i is the result of insert or delete on the child key[0] of the full node
insertFull(i, r, k) ==
  IF ~i.dirty \/ i.err # noErr THEN unchangedAt(i.H, r, i.err)
  ELSE replaceChildH(copyNode(i.H, r), k, i.n)

\* i is the result of insert or delete on the node rn a hash node stood for
belowHash(i, rn) ==
  IF ~i.dirty \/ i.err # noErr THEN unchangedAt(i.H, rn, i.err) ELSE i

insertHash(rn, d, prefix, key, value) ==
  IF rn.err # noErr THEN unchangedAt(rn.H, nilNode, rn.err)
  ELSE belowHash(insertH(rn.H, d, rn.r, prefix, key, value), rn.r)

\* insert on the heap
insertH(H, d, r, prefix, key, value) ==
  IF Len(key) = 0
  THEN IF r.t = "value"
       THEN [H |-> H, dirty |-> r.v # value.v, n |-> value, err |-> noErr]
       ELSE [H |-> H, dirty |-> TRUE, n |-> value, err |-> noErr]
  ELSE
  CASE typeOf(H, r) = "short" ->
         insertShort(H, d, r, prefix, key, value, prefixLen(key, H[r.a].Key))
    [] typeOf(H, r) = "full" ->
         insertFull(insertH(H, d, Child(H[r.a], key[1]), prefix \o <<key[1]>>,
                            Slice(key, 1, Len(key)), value),
                    r, key[1])
    [] typeOf(H, r) = "nil" -> changedTo(alloc(H, shortNode(key, value, newFlag)))
    [] typeOf(H, r) = "hash" ->
         insertHash(resolveHashH(H, d, r, prefix), d, prefix, key, value)
    [] OTHER -> unchangedAt(H, nilNode, panicErr)


RECURSIVE deleteH(_, _, _, _, _)

\* x is the result of delete on n.Val of the short node at r
deleteShort(x, r) ==
  IF ~x.dirty \/ x.err # noErr THEN unchangedAt(x.H, r, x.err)
  ELSE IF typeOf(x.H, x.n) = "short"
  THEN changedTo(alloc(x.H, shortNode(concat(x.H[r.a].Key, x.H[x.n.a].Key),
                                      x.H[x.n.a].Val, newFlag)))
  ELSE changedTo(alloc(x.H, shortNode(x.H[r.a].Key, x.n, newFlag)))

\* the full node at nn is left with the one child pos, cnode being the
\* result of resolve on it
reduceTo(cnode, nn, pos) ==
  IF cnode.err # noErr THEN unchangedAt(cnode.H, nilNode, cnode.err)
  ELSE IF pos # 16 /\ typeOf(cnode.H, cnode.r) = "short"
  THEN changedTo(alloc(cnode.H,
                       shortNode(<<pos>> \o cnode.H[cnode.r.a].Key,
                                 cnode.H[cnode.r.a].Val, newFlag)))
  ELSE changedTo(alloc(cnode.H,
                       shortNode(<<pos>>, Child(cnode.H[nn.a], pos), newFlag)))

\* c is the full node after n = n.copy(); n.flags = t.newFlag();
\* n.Children[key[0]] = nn, and isNil tells whether nn is nil
reduce(c, isNil, d, prefix, pos) ==
  IF ~isNil \/ pos < 0 THEN c
  ELSE reduceTo(IF pos # 16
                THEN resolveH(c.H, d, Child(c.H[c.n.a], pos), prefix)
                ELSE [H |-> c.H, r |-> nilNode, err |-> noErr],
                c.n, pos)

reduceCopy(c, isNil, d, prefix) ==
  reduce(c, isNil, d, prefix, onlyChild(c.H[c.n.a], 0, -1))

\* x is the result of delete on the child k of the full node at r
deleteFull(x, r, k, d, prefix) ==
  IF ~x.dirty \/ x.err # noErr THEN unchangedAt(x.H, r, x.err)
  ELSE reduceCopy(replaceChildH(copyNode(x.H, r), k, x.n), x.n = nilNode,
                  d, prefix)

deleteHash(rn, d, prefix, key) ==
  IF rn.err # noErr THEN unchangedAt(rn.H, nilNode, rn.err)
  ELSE belowHash(deleteH(rn.H, d, rn.r, prefix, key), rn.r)

\* delete on the heap
deleteH(H, d, r, prefix, key) ==
  CASE typeOf(H, r) = "short" ->
         IF prefixLen(key, H[r.a].Key) < Len(H[r.a].Key)
         THEN unchangedAt(H, r, noErr)
         ELSE IF prefixLen(key, H[r.a].Key) = Len(key)
         THEN [H |-> H, dirty |-> TRUE, n |-> nilNode, err |-> noErr]
         ELSE deleteShort(deleteH(H, d, H[r.a].Val,
                                  prefix \o Slice(key, 0, Len(H[r.a].Key)),
                                  Slice(key, Len(H[r.a].Key), Len(key))), r)
    [] typeOf(H, r) = "full" ->
         IF Len(key) = 0 THEN unchangedAt(H, nilNode, panicErr)
         ELSE deleteFull(deleteH(H, d, Child(H[r.a], key[1]),
                                 prefix \o <<key[1]>>, Slice(key, 1, Len(key))),
                         r, key[1], d, prefix)
    [] typeOf(H, r) = "value" ->
         [H |-> H, dirty |-> TRUE, n |-> nilNode, err |-> noErr]
    [] typeOf(H, r) = "nil" -> unchangedAt(H, nilNode, noErr)
    [] typeOf(H, r) = "hash" ->
         deleteHash(resolveHashH(H, d, r, prefix), d, prefix, key)


RECURSIVE hashH(_, _, _)
RECURSIVE hashFullNodeChildrenH(_, _, _, _, _)

\* collapsed.Val, cached.Val = h.hash(n.Val, false), s being the result
shortChildHashed(s, collapsed, cached) ==
  [H |-> setVal(setVal(s.H, collapsed, s.hashed), cached, s.cached),
   collapsed |-> collapsed, cached |-> cached]

\* H is the heap after collapsed.Key = hexToCompact(n.Key)
shortChild(H, r, collapsed, cached) ==
  IF typeOf(H, H[r.a].Val) \in {"full", "short"}
  THEN shortChildHashed(hashH(H, H[r.a].Val, FALSE), collapsed, cached)
  ELSE [H |-> H, collapsed |-> collapsed, cached |-> cached]

\* c is the heap after collapsed, cached = n.copy(), n.copy()
shortCopiesH(c, r, collapsed, cached) ==
  shortChild([c EXCEPT ![collapsed.a].Key = hexToCompact(c[r.a].Key)], r,
             collapsed, cached)

shortCopied(c1, c2, r) == shortCopiesH(c2.H, r, c1.r, c2.r)

shortCopiedOnce(c1, r) == shortCopied(c1, copyNode(c1.H, r), r)

\* hashShortNodeChildren on the heap
hashShortNodeChildrenH(H, r) == shortCopiedOnce(copyNode(H, r), r)

\* collapsed.Children[i], cached.Children[i] = h.hash(child, false)
fullChildHashed(s, r, collapsed, cached, i) ==
  hashFullNodeChildrenH(setChildAt(setChildAt(s.H, collapsed, i, s.hashed),
                                   cached, i, s.cached),
                        r, collapsed, cached, i + 1)

\* the loop of hashFullNodeChildren from child i on
hashFullNodeChildrenH(H, r, collapsed, cached, i) ==
  IF i > 15 THEN [H |-> H, collapsed |-> collapsed, cached |-> cached]
  ELSE IF Child(H[r.a], i) # nilNode
  THEN fullChildHashed(hashH(H, Child(H[r.a], i), FALSE), r, collapsed, cached, i)
  ELSE hashFullNodeChildrenH(setChildAt(H, collapsed, i, nilValueNode), r,
                             collapsed, cached, i + 1)

fullCopied(c1, c2, r) == hashFullNodeChildrenH(c2.H, r, c2.r, c1.r, 0)

\* cached = n.copy(); collapsed = n.copy()
fullCopiedOnce(c1, r) == fullCopied(c1, copyNode(c1.H, r), r)

\* the collapsed node as shortnodeToHash and fullnodeToHash return it: a
\* hash node, or the collapsed node itself
toHash(hashed, collapsed) == IF hashed.t = "hash" THEN hashed ELSE collapsed

\* cached.flags.hash = hn, or nil when hashed is no hash node
hashedH(c, hashed) ==
  [H |-> [c.H EXCEPT ![c.cached.a].flags.hash =
            IF hashed.t = "hash" THEN hashed ELSE nilNode],
   hashed |-> toHash(hashed, c.collapsed), cached |-> c.cached]

hashShortH(c, force) ==
  hashedH(c, shortnodeToHash(deref(c.H, c.collapsed), force))

hashFullH(c, force) ==
  hashedH(c, fullnodeToHash(deref(c.H, c.collapsed), force))

\* hasher.hash on the heap
hashH(H, r, force) ==
  IF r.t # "ptr" THEN [H |-> H, hashed |-> r, cached |-> r]
  ELSE IF H[r.a].flags.hash # nilNode
  THEN [H |-> H, hashed |-> H[r.a].flags.hash, cached |-> r]
  ELSE IF H[r.a].t = "short" THEN hashShortH(hashShortNodeChildrenH(H, r), force)
  ELSE hashFullH(fullCopiedOnce(copyNode(H, r), r), force)


\* the trie x = [root, unhashed] on the heap H and the store d, as a value
valueTrie(H, d, x) ==
  [root |-> deref(H, x.root), unhashed |-> x.unhashed, db |-> d]

\* TryGet on the heap (g is the result of tryGet on the root)
gottenH(x, g) ==
  [H |-> g.H,
   t |-> IF g.err = noErr /\ g.didResolve THEN [x EXCEPT !.root = g.newnode]
         ELSE x,
   value |-> g.value, err |-> g.err]

TryGetH(H, d, x, key) == gottenH(x, tryGetH(H, d, x.root, keybytesToHex(key), 0))

\* TryUpdate and TryDelete on the heap (r is the result of insert or delete)
updatedH(x, r) ==
  [H |-> r.H,
   t |-> IF r.err # noErr THEN [x EXCEPT !.unhashed = x.unhashed + 1]
         ELSE [root |-> r.n, unhashed |-> x.unhashed + 1],
   err |-> r.err]

TryDeleteH(H, d, x, key) ==
  updatedH(x, deleteH(H, d, x.root, << >>, keybytesToHex(key)))

TryUpdateH(H, d, x, key, value) ==
  IF Len(value) # 0
  THEN updatedH(x, insertH(H, d, x.root, << >>, keybytesToHex(key),
                           valueNode(value)))
  ELSE TryDeleteH(H, d, x, key)

\* Hash on the heap: t.root = cached, t.unhashed = 0 (h is the result of
\* hash on the root, with force)
hashedRootH(h) ==
  [H |-> h.H, t |-> [root |-> h.cached, unhashed |-> 0],
   hash |-> IF h.hashed.t = "hash" THEN h.hashed.h ELSE noHash,
   err |-> IF h.hashed.t = "hash" THEN noErr ELSE panicErr]

HashH(H, x) ==
  IF x.root = nilNode
  THEN [H |-> H, t |-> x, hash |-> emptyRoot, err |-> noErr]
  ELSE hashedRootH(hashH(H, x.root, TRUE))

(***************************************************************************)
(* A trie t and its copy c := t.Copy(), which has the root, the store and  *)
(* the counter of t.  mem.H is the heap, mem.t and mem.c are the two       *)
(* tries; last.who is the trie the last call was made on.  The state       *)
(* after construction is the one in which Copy has just returned, t being  *)
(* a trie that was built, and possibly hashed, committed and read.         *)
(***************************************************************************)
MaxShared == 2

ShareKeys == {<<17>>, <<17, 17>>, <<33>>}

\* what t holds when it is copied: a value for <<17>>, and for any of the
\* other keys
Contents ==
  {m \in [Keys -> {<< >>, LargeVal}] :
     /\ \A k \in Keys \ ShareKeys : m[k] = << >>
     /\ m[<<17>>] # << >>}

\* the tries t can be when it is copied: built, then hashed, then
\* committed, then read
Built(m) ==
  {builtInOrder(emptyTrie, m, 1), Hash(builtInOrder(emptyTrie, m, 1)).t,
   Commit(builtInOrder(emptyTrie, m, 1)).t,
   TryGet(Commit(builtInOrder(emptyTrie, m, 1)).t, <<17>>).t}

\* Copy: the copy has the root and the counter of t
Copied(m, start, st) ==
  /\ model = m
  /\ db = start.db
  /\ mem = [H |-> st.H, t |-> [root |-> st.r, unhashed |-> start.unhashed],
            c |-> [root |-> st.r, unhashed |-> start.unhashed]]

InitShare ==
  /\ root = nilNode
  /\ unhashed = 0
  /\ nops = 0
  /\ pc = << >>
  /\ last = [op |-> "Copy", who |-> "t", key |-> noKey, val |-> << >>,
             err |-> noErr]
  /\ \E m \in Contents : \E start \in Built(m) :
       Copied(m, start, storeNode(<< >>, start.root))

\* r is the result of the call op on the trie who
Shared(who, op, key, val, r) ==
  /\ nops < MaxShared
  /\ mem' = [mem EXCEPT !.H = r.H, ![who] = r.t]
  /\ last' = [op |-> op, who |-> who, key |-> key, val |-> val, err |-> r.err]
  /\ nops' = nops + 1
  /\ UNCHANGED <<root, unhashed, db, model, pc>>

ShareGetStep(who, k) == Shared(who, "get", k, << >>, TryGetH(mem.H, db, mem[who], k))

ShareUpdateStep(who, k, v) ==
  Shared(who, "update", k, v, TryUpdateH(mem.H, db, mem[who], k, v))

ShareDeleteStep(who, k) ==
  Shared(who, "delete", k, << >>, TryDeleteH(mem.H, db, mem[who], k))

ShareHashStep(who) == Shared(who, "hash", noKey, << >>, HashH(mem.H, mem[who]))

NextShare ==
  \/ \E who \in {"t", "c"}, k \in ShareKeys : ShareGetStep(who, k)
  \/ \E who \in {"t", "c"}, k \in ShareKeys, v \in Values :
       ShareUpdateStep(who, k, v)
  \/ \E who \in {"t", "c"}, k \in ShareKeys : ShareDeleteStep(who, k)
  \/ \E who \in {"t", "c"} : ShareHashStep(who)

SpecShare == InitShare /\ [][NextShare]_vars

\* what Hash() and TryGet of every key return on the trie x
answers(H, d, x) ==
  [hash |-> HashOf(valueTrie(H, d, x)),
   err |-> Hash(valueTrie(H, d, x)).err,
   get |-> [k \in ShareKeys |->
              [value |-> GetOf(valueTrie(H, d, x), k),
               err |-> TryGet(valueTrie(H, d, x), k).err]]]

other(who) == IF who = "t" THEN "c" ELSE "t"

\* the call leaves the answers of the trie it was not made on as they were
otherKept(who) ==
  answers(mem'.H, db', mem'[other(who)]) = answers(mem.H, db, mem[other(who)])

\* the addresses of the short and full nodes at and below r
RECURSIVE addrs(_, _)
addrs(H, r) ==
  IF r.t # "ptr" THEN {}
  ELSE IF H[r.a].t = "short" THEN {r.a} \cup addrs(H, H[r.a].Val)
  ELSE {r.a} \cup UNION {addrs(H, H[r.a].Children[i]) : i \in 1..17}

\* the call made on the heap gives the trie that the same call gives on the
\* trie as a value
asValue(op, k, v, t) ==
  CASE op = "get" -> TryGet(t, k).t
    [] op = "update" -> TryUpdate(t, k, v).t
    [] op = "delete" -> TryDelete(t, k).t
    [] op = "hash" -> Hash(t).t

HeapAgrees ==
  [][valueTrie(mem'.H, db', mem'[last'.who])
       = asValue(last'.op, last'.key, last'.val,
                 valueTrie(mem.H, db, mem[last'.who]))]_vars

\* C40: after c := t.Copy(), a TryGet, TryUpdate, TryDelete or Hash on one
\* of t and c leaves what Hash() and TryGet of every key return on the
\* other as it was
C40_CopyIsolated == [][otherKept(last'.who)]_vars

\* a TryUpdate on t has given t a root of its own, below which t still has
\* a node in common with c
C40_Witness ==
  /\ last.op = "update"
  /\ last.who = "t"
  /\ mem.t.root # mem.c.root
  /\ addrs(mem.H, mem.t.root) \cap addrs(mem.H, mem.c.root) # {}

====
